---- MODULE Spec2Model ----
(***************************************************************************)
(* A model of the agent coordination substrate of the conference lead      *)
(* pipeline: the message bus, the shared context, the ICP validator, the   *)
(* quality reviewer and the orchestrator's sequencing of the phases.       *)
(*                                                                         *)
(* Python objects are records; a dict is a function whose DOMAIN is its    *)
(* key set (a dict iterated in insertion order is a sequence of entries);  *)
(* an Optional value is the empty sequence (None) or a one-element         *)
(* sequence; ICPResult objects live in a heap and are held by reference,   *)
(* since the validator and the context share them.                         *)
(***************************************************************************)
EXTENDS Integers, Sequences, FiniteSets, TLC

VARIABLES
    bus,          \* MessageBus: _subscribers, _message_history, _pending_messages
    calls,        \* what the recording handlers subscribed to the bus were called with
    context,      \* SharedContext.context, the AgentContext
    checkpoints,  \* SharedContext._checkpoints
    heap,         \* the ICPResult objects, by reference
    validator,    \* ICPValidatorAgent: gemini, _pending_validations
    quality,      \* QualityAgent: gemini, _reviews_completed
    enricher,     \* EnricherAgent: gemini, _cache
    orchestrator, \* OrchestratorAgent: _pipeline_status
    ids,          \* how many message ids have been drawn
    pc,           \* where the running operation stands
    ret,          \* what the last operation returned to its caller
    log           \* the arguments of the operations applied so far

vars == <<bus, calls, context, checkpoints, heap, validator, quality, enricher,
          orchestrator, ids, pc, ret, log>>

-----------------------------------------------------------------------------
(* Bounds of the model *)

MaxCompanies == 2    \* organizations in a scrape result
MaxDeliveries == 2   \* messages delivered to the validator after its phase
MaxOps == 4          \* operations applied to a bus
MaxAdds == 3         \* results added to a context
MaxSent == 3         \* messages in the history that is queried
MaxSteps == 5        \* operations applied to a context with checkpoints
MaxScored == 2       \* direct calls of the rule-based scoring

-----------------------------------------------------------------------------
(* Python values *)

None == <<>>
Some(v) == <<v>>
IsNone(o) == o = <<>>
Val(o) == o[1]

\* dict.get(key, default)
Get(d, k, default) == IF k \in DOMAIN d THEN d[k] ELSE default

\* d[k] = v
Put(d, k, v) == [x \in DOMAIN d \cup {k} |-> IF x = k THEN v ELSE d[x]]

\* del d[k]
Del(d, k) == [x \in DOMAIN d \ {k} |-> d[x]]

EmptyDict == [x \in {} |-> None]

Min(a, b) == IF a <= b THEN a ELSE b
Max(a, b) == IF a >= b THEN a ELSE b
Abs(a) == IF a >= 0 THEN a ELSE 0 - a

UpperChars == "ABCDEFGHIJKLMNOPQRSTUVWXYZ"
LowerChars == "abcdefghijklmnopqrstuvwxyz"

\* the lower-case letter of each upper-case letter
LowerMap ==
    [c \in {SubSeq(UpperChars, i, i) : i \in 1..26} |->
        LET i == CHOOSE j \in 1..26 : SubSeq(UpperChars, j, j) = c
        IN  SubSeq(LowerChars, i, i)]

\* str.lower() of one character
LowerChar(c) == IF c \in DOMAIN LowerMap THEN LowerMap[c] ELSE c

RECURSIVE Lower(_)
\* str.lower()
Lower(s) ==
    IF Len(s) = 0 THEN ""
    ELSE LowerChar(SubSeq(s, 1, 1)) \o Lower(SubSeq(s, 2, Len(s)))

\* sub in s
Contains(sub, s) ==
    \E i \in 0..(Len(s) - Len(sub)) : SubSeq(s, i + 1, i + Len(sub)) = sub

\* a Python truth test of a str
Truthy(s) == Len(s) > 0

RECURSIVE Join(_, _)
\* sep.join(parts)
Join(sep, parts) ==
    IF Len(parts) = 0 THEN ""
    ELSE IF Len(parts) = 1 THEN parts[1]
    ELSE parts[1] \o sep \o Join(sep, Tail(parts))

-----------------------------------------------------------------------------
(* config.py *)

target_industries ==
    << "Manufacturing", "Industrial Equipment", "Medical Devices",
       "Healthcare Technology", "Field Service", "HVAC", "Utilities",
       "Telecommunications", "Industrial Automation", "Building Automation",
       "Elevator/Escalator", "Energy", "Oil & Gas", "Aerospace", "Defense" >>

target_titles ==
    << "VP", "Vice President", "SVP", "Senior Vice President", "EVP",
       "Executive Vice President", "Director", "Senior Director", "Chief",
       "C-Level", "COO", "CTO", "CIO", "Head of", "General Manager",
       "President" >>

target_departments ==
    << "Field Service", "Service", "Customer Service", "Customer Support",
       "Technical Support", "Operations", "Service Operations", "Aftermarket",
       "Service Delivery", "Digital", "Technology", "IT", "Innovation" >>

min_company_size == 500
preferred_company_size == 1000

weight_industry_match == 30
weight_title_match == 25
weight_department_match == 20
weight_company_size == 15
weight_speaker_bonus == 10

threshold_high == 75
threshold_medium == 50

\* the fit level the thresholds give a score
FitLevelOf(score) ==
    IF score >= threshold_high THEN "High"
    ELSE IF score >= threshold_medium THEN "Medium"
    ELSE "Low"

-----------------------------------------------------------------------------
(* models/schemas.py *)

\* ICPResult(...): the fields a new object gets; disputed, dispute_reason and
\* final_score take their defaults
ICPResult(company_name, score, fit_level, reasoning, industry_score, title_score, department_score, size_score, speaker_bonus, validated_by) ==
    [ company_name |-> company_name, score |-> score, fit_level |-> fit_level,
      reasoning |-> reasoning, industry_score |-> industry_score,
      title_score |-> title_score, department_score |-> department_score,
      size_score |-> size_score, speaker_bonus |-> speaker_bonus,
      validated_by |-> validated_by, disputed |-> FALSE, dispute_reason |-> "",
      final_score |-> None ]

\* score: int = Field(ge=0, le=100), which pydantic checks when an object is
\* constructed and not when a field is assigned
ScoreFieldValid(score) == score >= 0 /\ score <= 100

\* Company(name=..., industry=..., size=..., source=...)
Company(name, industry, size, source) ==
    [ name |-> name, industry |-> industry, size |-> size, size_category |-> "",
      description |-> "", source |-> source, speakers |-> <<>>, attendees |-> <<>> ]

\* Speaker(name=..., title=..., company=...), and Attendee alike
Speaker(name, title, company) == [name |-> name, title |-> title, company |-> company]

\* ConferenceData(speakers=..., attendees=..., companies=...)
ConferenceData(speakers, attendees, companies) ==
    [speakers |-> speakers, attendees |-> attendees, companies |-> companies]

\* AgentContext(url=...): the state of a new context
AgentContext ==
    [ conference_data |-> None, icp_results |-> <<>>, messages |-> <<>>,
      errors |-> <<>>, status |-> "initialized", current_agent |-> "" ]

\* AgentMessage(...)
AgentMessage(id, sender, recipient, message_type, action, payload, conversation_id) ==
    [ id |-> id, sender |-> sender, recipient |-> recipient,
      message_type |-> message_type, action |-> action, payload |-> payload,
      requires_response |-> FALSE, conversation_id |-> conversation_id ]

-----------------------------------------------------------------------------
(* Sequences *)

\* the least member of a set of indices, 0 when the set is empty: the place of
\* the first element a loop or next(...) finds
FirstOf(S) == IF S = {} THEN 0 ELSE CHOOSE i \in S : \A j \in S : i <= j

Range(s) == {s[i] : i \in DOMAIN s}

\* the member of a set of one member: Only({e : x \in {v}}) is e with the
\* value v, computed once, for x
Only(S) == CHOOSE x \in S : TRUE

-----------------------------------------------------------------------------
(* communication/context.py *)

\* SharedContext.get_company_details
get_company_details(ctx, company_name) ==
    IF IsNone(ctx.conference_data) THEN [name |-> company_name]
    ELSE
      LET data == Val(ctx.conference_data)
          same(n) == Lower(n) = Lower(company_name)
          ci == FirstOf({i \in DOMAIN data.companies : same(data.companies[i].name)})
          ofCompany(p) == same(p.company)
          people(s) == LET found == SelectSeq(s, ofCompany)
                       IN  [k \in DOMAIN found |->
                              [name |-> found[k].name, title |-> found[k].title]]
          base == [ name |-> company_name, speakers |-> people(data.speakers),
                    attendees |-> people(data.attendees) ]
      IN  IF ci = 0 THEN base
          ELSE LET c == data.companies[ci]
               IN  base @@ [ industry |-> c.industry, size |-> c.size,
                             size_category |-> c.size_category,
                             description |-> c.description, source |-> c.source ]

\* a call that hands out the lists of the state: details["speakers"] is the
\* speakers list of the conference data itself
company_details_call_sharing(ctx, company_name) ==
    [ ctx |-> ctx, value |-> get_company_details(ctx, company_name),
      aliases |-> {"speakers"} ]

\* A call of get_company_details: the context it leaves, the dict it
\* returns, and the keys of the dict whose value is an object of the state
\* that can be changed in place. The dict and its two lists are built in the
\* call from strings and numbers, so there is no such key.
company_details_call(ctx, company_name) ==
    [ctx |-> ctx, value |-> get_company_details(ctx, company_name), aliases |-> {}]

\* the names get_companies collects in its set: names are added as they are
\* written, so two spellings of one name are two members
CompanyNameSet(ctx) ==
    IF IsNone(ctx.conference_data) THEN {}
    ELSE LET data == Val(ctx.conference_data)
         IN  {c.name : c \in Range(data.companies)}
             \cup {p.company : p \in {q \in Range(data.speakers) : Truthy(q.company)}}
             \cup {p.company : p \in {q \in Range(data.attendees) : Truthy(q.company)}}

\* the orders list(set) may give the names in
Orderings(S) ==
    {s \in [1..Cardinality(S) -> S] : \A i, j \in DOMAIN s : i # j => s[i] # s[j]}

\* SharedContext.get_companies: every list it may return
get_companies(ctx) == Orderings(CompanyNameSet(ctx))

\* add_icp_result without the search for an existing record
add_icp_result_append(results, h, ref) == Append(results, ref)

\* SharedContext.add_icp_result, on the list of references: the first record
\* of the same name is replaced at the index list.index gives it (the first
\* record equal to it), else the result is appended
add_icp_result(results, h, ref) ==
    LET i == FirstOf({k \in DOMAIN results :
                        h[results[k]].company_name = h[ref].company_name})
    IN  IF i # 0
        THEN LET idx == FirstOf({k \in DOMAIN results : h[results[k]] = h[results[i]]})
             IN  [results EXCEPT ![idx] = ref]
        ELSE Append(results, ref)

\* a copy of the context that shares the ICPResult objects with the original
model_copy_shallow(ctx, h) == [ctx |-> ctx, heap |-> h]

\* AgentContext.model_copy(deep=True): the copy has ICPResult objects of its
\* own, new on the heap; the rest of the context is held by value
model_copy_deep(ctx, h) ==
    [ ctx |-> [ctx EXCEPT !.icp_results = [i \in DOMAIN @ |-> Len(h) + i]],
      heap |-> h \o [i \in DOMAIN ctx.icp_results |-> h[ctx.icp_results[i]]] ]

\* SharedContext.create_checkpoint, on the checkpoints and the heap
create_checkpoint(cps, ctx, h, name) ==
    LET c == model_copy_deep(ctx, h)
    IN  [checkpoints |-> Put(cps, name, c.ctx), heap |-> c.heap]

\* restore_checkpoint that reports True whether or not the name has a checkpoint
restore_checkpoint_always(cps, ctx, h, name) ==
    IF name \in DOMAIN cps
    THEN LET c == model_copy_deep(cps[name], h)
         IN  [context |-> c.ctx, heap |-> c.heap, result |-> TRUE]
    ELSE [context |-> ctx, heap |-> h, result |-> TRUE]

\* SharedContext.restore_checkpoint: the context it leaves, the heap, and
\* the value returned
restore_checkpoint(cps, ctx, h, name) ==
    IF name \in DOMAIN cps
    THEN LET c == model_copy_deep(cps[name], h)
         IN  [context |-> c.ctx, heap |-> c.heap, result |-> TRUE]
    ELSE [context |-> ctx, heap |-> h, result |-> FALSE]

-----------------------------------------------------------------------------
(* agents/icp_validator_agent.py: scoring *)

\* company_info.get("speakers", [])
SpeakersOf(company_info) == Get(company_info, "speakers", <<>>)

\* x.lower() for each x of a list
LowerAll(list) == [i \in DOMAIN list |-> Lower(list[i])]

\* target.lower() for the targets of the criteria
target_industries_lower == LowerAll(target_industries)
target_titles_lower == LowerAll(target_titles)
target_departments_lower == LowerAll(target_departments)

\* the first target industry that is in the industry or holds it, 0 for none
IndustryMatch(company_info) ==
    FirstOf(UNION { {i \in DOMAIN target_industries_lower :
                       \/ Contains(target_industries_lower[i], industry)
                       \/ Contains(industry, target_industries_lower[i])} :
                    industry \in {Lower(Get(company_info, "industry", ""))} })

\* the first target of the lowered list that title.lower() holds, 0 for none
TargetIn(targets_lower, title) ==
    FirstOf(UNION { {i \in DOMAIN targets_lower : Contains(targets_lower[i], title_lower)} :
                    title_lower \in {Lower(title)} })

\* the first speaker whose title holds a target of the lowered list, 0 for none
SpeakerMatch(targets_lower, speakers) ==
    FirstOf({i \in DOMAIN speakers : TargetIn(targets_lower, speakers[i].title) # 0})

\* company_info.get("size") or company_info.get("employee_count")
CompanySize(company_info) ==
    LET size == Get(company_info, "size", None)
    IN  IF ~IsNone(size) /\ Val(size) # 0 THEN size
        ELSE Get(company_info, "employee_count", None)

\* the size score counted only for a name the validator holds no record of
SizeScoreOfNew(company_info) ==
    LET company_size == CompanySize(company_info)
    IN  IF Get(company_info, "name", "") \in DOMAIN validator.pending_validations THEN 0
        ELSE IF IsNone(company_size) \/ Val(company_size) = 0 THEN 0
        ELSE IF Val(company_size) >= preferred_company_size THEN weight_company_size
        ELSE IF Val(company_size) >= min_company_size THEN weight_company_size \div 2
        ELSE 0

\* the size score with the half of the weight rounded up
SizeScoreHalfUp(company_info) ==
    LET company_size == CompanySize(company_info)
    IN  IF IsNone(company_size) \/ Val(company_size) = 0 THEN 0
        ELSE IF Val(company_size) >= preferred_company_size THEN weight_company_size
        ELSE IF Val(company_size) >= min_company_size THEN (weight_company_size + 1) \div 2
        ELSE 0

\* the size score of _rule_based_validation
SizeScore(company_info) ==
    LET company_size == CompanySize(company_info)
    IN  IF IsNone(company_size) \/ Val(company_size) = 0 THEN 0
        ELSE IF Val(company_size) >= preferred_company_size THEN weight_company_size
        ELSE IF Val(company_size) >= min_company_size THEN weight_company_size \div 2
        ELSE 0

SizeReasoning(company_info) ==
    LET company_size == CompanySize(company_info)
    IN  IF IsNone(company_size) \/ Val(company_size) = 0 THEN <<>>
        ELSE IF Val(company_size) >= preferred_company_size
        THEN << "Enterprise size: " \o ToString(Val(company_size)) \o "+ employees" >>
        ELSE IF Val(company_size) >= min_company_size
        THEN << "Mid-market size: " \o ToString(Val(company_size)) \o " employees" >>
        ELSE <<>>

\* ICPValidatorAgent._rule_based_validation
rule_based_validation(company_name, company_info) ==
    LET speakers == SpeakersOf(company_info)
        ind == IndustryMatch(company_info)
        industry_score == IF ind # 0 THEN weight_industry_match ELSE 0
        ts == SpeakerMatch(target_titles_lower, speakers)
        title_score == IF ts # 0 THEN weight_title_match ELSE 0
        ds == SpeakerMatch(target_departments_lower, speakers)
        department_score == IF ds # 0 THEN weight_department_match ELSE 0
        size_score == SizeScore(company_info)
        speaker_bonus == IF Len(speakers) > 0 THEN weight_speaker_bonus ELSE 0
        score == industry_score + title_score + department_score + size_score
                 + speaker_bonus
        reasoning_parts ==
            (IF ind # 0 THEN << "Industry match: " \o target_industries[ind] >> ELSE <<>>)
            \o (IF ts # 0 THEN << "Title match: " \o speakers[ts].title >> ELSE <<>>)
            \o (IF ds # 0
                THEN << "Department match: "
                        \o target_departments[TargetIn(target_departments_lower, speakers[ds].title)] >>
                ELSE <<>>)
            \o SizeReasoning(company_info)
            \o (IF Len(speakers) > 0
                THEN << "Has " \o ToString(Len(speakers)) \o " speaker(s) at conference" >>
                ELSE <<>>)
        reasoning == IF Len(reasoning_parts) > 0 THEN Join("; ", reasoning_parts)
                     ELSE "Insufficient data for scoring"
    IN  ICPResult(company_name, score, FitLevelOf(score), reasoning, industry_score,
                  title_score, department_score, size_score, speaker_bonus,
                  "ICPValidatorAgent")

\* ICPValidatorAgent._validate_company; oracle is what gemini.validate_icp does
\* in this call: it raises, or returns a dict
validate_company(gemini, oracle, company_name, company_info) ==
    IF gemini /\ ~oracle.raises
          /\ ScoreFieldValid(Get(oracle.result, "score", 50))
    THEN LET result == oracle.result
         IN  ICPResult(company_name, Get(result, "score", 50),
                       Get(result, "fit_level", "Medium"), Get(result, "reasoning", ""),
                       Get(result, "industry_score", 0), Get(result, "title_score", 0),
                       Get(result, "department_score", 0), Get(result, "size_score", 0),
                       Get(result, "speaker_bonus", 0), "ICPValidatorAgent")
    ELSE rule_based_validation(company_name, company_info)

-----------------------------------------------------------------------------
(* agents/icp_validator_agent.py: disputes and enrichment updates *)

\* a fallback test that takes a suggested score at any distance
AcceptSuggestedAny(original, suggested_score) ==
    ~IsNone(suggested_score) /\ Val(suggested_score) # 0

\* a fallback test that takes a suggested score within 10 points only
AcceptSuggestedWithin10(original, suggested_score) ==
    /\ ~IsNone(suggested_score)
    /\ Val(suggested_score) # 0
    /\ Abs(Val(suggested_score) - original.score) <= 10

\* a fallback test that takes a suggested score within 19 points only
AcceptSuggestedWithin19(original, suggested_score) ==
    /\ ~IsNone(suggested_score)
    /\ Val(suggested_score) # 0
    /\ Abs(Val(suggested_score) - original.score) <= 19

\* the fallback test of _handle_dispute: a suggested score that is neither
\* None nor 0 and lies within 20 points of the original score
AcceptSuggested(original, suggested_score) ==
    /\ ~IsNone(suggested_score)
    /\ Val(suggested_score) # 0
    /\ Abs(Val(suggested_score) - original.score) <= 20

\* the fit level _handle_dispute gives the revised score
DisputeFitLevel(score) ==
    IF score >= threshold_high THEN "High"
    ELSE IF score >= threshold_medium THEN "Medium"
    ELSE "Low"

\* the value of the key in a dict parsed from JSON is null; a dict names the
\* keys it has with null under "nulls"
JsonNull(result, key) == key \in Get(result, "nulls", {})

\* ICPValidatorAgent._handle_dispute: the revised record, or an error when the
\* copy of the original cannot be constructed, or when the final score of
\* the oracle is null and the comparison with the thresholds fails. oracle is
\* what gemini.resolve_dispute does in this call.
handle_dispute(gemini, oracle, original, dispute_reason, suggested_score) ==
    IF ~ScoreFieldValid(original.score) THEN [raised |-> TRUE]
    ELSE IF gemini /\ ~oracle.raises /\ JsonNull(oracle.result, "final_score")
    THEN [raised |-> TRUE]
    ELSE
      LET copy == [ ICPResult(original.company_name, original.score, original.fit_level,
                              original.reasoning, original.industry_score,
                              original.title_score, original.department_score,
                              original.size_score, original.speaker_bonus,
                              original.validated_by)
                    EXCEPT !.disputed = TRUE, !.dispute_reason = dispute_reason ]
          resolved ==
              IF gemini /\ ~oracle.raises
              THEN LET final_score == Get(oracle.result, "final_score", original.score)
                   IN  [ copy EXCEPT
                           !.final_score = Some(final_score),
                           !.score = final_score,
                           !.fit_level = Get(oracle.result, "final_fit_level",
                                             original.fit_level),
                           !.reasoning = original.reasoning \o " | Dispute resolved: "
                                         \o Get(oracle.result, "explanation", "") ]
              ELSE IF AcceptSuggested(original, suggested_score)
              THEN [ copy EXCEPT !.score = Val(suggested_score),
                                 !.final_score = suggested_score ]
              ELSE copy
      IN  [ raised |-> FALSE,
            revised |-> [resolved EXCEPT !.fit_level = DisputeFitLevel(resolved.score)] ]

\* ICPValidatorAgent._update_with_enrichment, on the record it updates in place
update_with_enrichment(result, enrichment) ==
    LET industry == Get(enrichment, "industry", "")
        hit == /\ Truthy(industry)
               /\ result.industry_score = 0
               /\ \E i \in DOMAIN target_industries :
                     Contains(Lower(target_industries[i]), Lower(industry))
        scored == IF hit
                  THEN [ result EXCEPT
                           !.industry_score = weight_industry_match,
                           !.score = result.score + weight_industry_match,
                           !.reasoning = result.reasoning \o "; Industry confirmed: "
                                         \o industry ]
                  ELSE result
    IN  IF scored.score >= threshold_high THEN [scored EXCEPT !.fit_level = "High"]
        ELSE IF scored.score >= threshold_medium THEN [scored EXCEPT !.fit_level = "Medium"]
        ELSE scored

-----------------------------------------------------------------------------
(* agents/quality_agent.py: the review *)

senior_titles == << "SVP", "VP", "Chief", "Director", "President", "Head of" >>
field_service_keywords == << "field service", "service", "aftermarket", "support" >>

\* any(st.lower() in title.lower() for st in senior_titles), for some speaker
HasSeniorSpeaker(speakers) ==
    \E i \in DOMAIN speakers : \E k \in DOMAIN senior_titles :
        Contains(Lower(senior_titles[k]), Lower(speakers[i].title))

\* any(kw in title.lower() for kw in field_service_keywords), for some speaker
HasFsTitle(speakers) ==
    \E i \in DOMAIN speakers : \E k \in DOMAIN field_service_keywords :
        Contains(field_service_keywords[k], Lower(speakers[i].title))

\* the review dict
Review(company_name, score, should_dispute, reason, suggested_score) ==
    [ company_name |-> company_name, original_score |-> score,
      should_dispute |-> should_dispute, reason |-> reason,
      suggested_score |-> suggested_score ]

\* QualityAgent._gemini_review, of the dict generate_json returned
gemini_review(result_data, response) ==
    Review(result_data.company_name, result_data.score,
           Get(response, "should_dispute", FALSE), Get(response, "reason", ""),
           IF "suggested_score" \in DOMAIN response
           THEN Some(response.suggested_score) ELSE None)

\* a review that tries the senior-title rule before the speaker rule
review_score_data_senior_first(gemini, oracle, result_data, company_info) ==
    LET score == result_data.score
        speakers == SpeakersOf(company_info)
        dispute(reason, suggested) ==
            Review(result_data.company_name, score, TRUE, reason, Some(suggested))
    IN  IF HasSeniorSpeaker(speakers) /\ score < 70
        THEN dispute("Company has senior-level speaker but score is " \o ToString(score),
                     Min(score + 20, 90))
        ELSE IF Len(speakers) > 0 /\ score < 60
        THEN dispute("Company has " \o ToString(Len(speakers))
                       \o " speaker(s) but score is only " \o ToString(score),
                     Min(score + 15, 85))
        ELSE IF HasFsTitle(speakers) /\ score < 75
        THEN dispute("Company has Field Service leadership but score is "
                       \o ToString(score),
                     Min(score + 15, 92))
        ELSE IF score >= 80 /\ Len(speakers) = 0
                  /\ Contains("Unknown", result_data.reasoning)
        THEN dispute("High score (" \o ToString(score) \o ") with insufficient evidence",
                     Max(score - 15, 50))
        ELSE IF gemini /\ score >= 50 /\ ~oracle.raises
                  /\ Get(oracle.result, "should_dispute", FALSE)
        THEN gemini_review(result_data, oracle.result)
        ELSE Review(result_data.company_name, score, FALSE, "", None)

\* a review that asks the oracle first and lets its dispute stand
review_score_data_oracle_first(gemini, oracle, result_data, company_info) ==
    LET score == result_data.score
        speakers == SpeakersOf(company_info)
        dispute(reason, suggested) ==
            Review(result_data.company_name, score, TRUE, reason, Some(suggested))
    IN  IF gemini /\ score >= 50 /\ ~oracle.raises
              /\ Get(oracle.result, "should_dispute", FALSE)
        THEN gemini_review(result_data, oracle.result)
        ELSE IF Len(speakers) > 0 /\ score < 60
        THEN dispute("Company has " \o ToString(Len(speakers))
                       \o " speaker(s) but score is only " \o ToString(score),
                     Min(score + 15, 85))
        ELSE IF HasSeniorSpeaker(speakers) /\ score < 70
        THEN dispute("Company has senior-level speaker but score is " \o ToString(score),
                     Min(score + 20, 90))
        ELSE IF HasFsTitle(speakers) /\ score < 75
        THEN dispute("Company has Field Service leadership but score is "
                       \o ToString(score),
                     Min(score + 15, 92))
        ELSE IF score >= 80 /\ Len(speakers) = 0
                  /\ Contains("Unknown", result_data.reasoning)
        THEN dispute("High score (" \o ToString(score) \o ") with insufficient evidence",
                     Max(score - 15, 50))
        ELSE Review(result_data.company_name, score, FALSE, "", None)

\* QualityAgent._review_score_data; oracle is what gemini.generate_json does
\* if it is called
review_score_data(gemini, oracle, result_data, company_info) ==
    LET score == result_data.score
        reasoning == result_data.reasoning
        speakers == SpeakersOf(company_info)
        dispute(reason, suggested) ==
            Review(result_data.company_name, score, TRUE, reason, Some(suggested))
    IN  IF Len(speakers) > 0 /\ score < 60
        THEN dispute("Company has " \o ToString(Len(speakers))
                       \o " speaker(s) but score is only " \o ToString(score),
                     Min(score + 15, 85))
        ELSE IF HasSeniorSpeaker(speakers) /\ score < 70
        THEN dispute("Company has senior-level speaker but score is " \o ToString(score),
                     Min(score + 20, 90))
        ELSE IF HasFsTitle(speakers) /\ score < 75
        THEN dispute("Company has Field Service leadership but score is "
                       \o ToString(score),
                     Min(score + 15, 92))
        ELSE IF score >= 80 /\ Len(speakers) = 0 /\ Contains("Unknown", reasoning)
        THEN dispute("High score (" \o ToString(score) \o ") with insufficient evidence",
                     Max(score - 15, 50))
        ELSE IF gemini /\ score >= 50 /\ ~oracle.raises
                  /\ Get(oracle.result, "should_dispute", FALSE)
        THEN gemini_review(result_data, oracle.result)
        ELSE Review(result_data.company_name, score, FALSE, "", None)

-----------------------------------------------------------------------------
(* agents/enricher_agent.py *)

industry_keywords ==
    << [industry |-> "Manufacturing",
        keywords |-> <<"manufacturing", "industrial", "equipment", "machinery">>],
       [industry |-> "Healthcare/Medical",
        keywords |-> <<"medical", "health", "pharma", "biotech", "hospital">>],
       [industry |-> "Technology",
        keywords |-> <<"tech", "software", "digital", "data", "cloud">>],
       [industry |-> "Energy/Utilities",
        keywords |-> <<"energy", "power", "utility", "electric", "gas", "oil">>],
       [industry |-> "Telecommunications",
        keywords |-> <<"telecom", "wireless", "network", "communications">>],
       [industry |-> "Transportation",
        keywords |-> <<"logistics", "transport", "shipping", "freight">>],
       [industry |-> "Building/Construction",
        keywords |-> <<"construction", "building", "hvac", "elevator">>] >>

\* EnricherAgent._basic_enrichment
basic_enrichment(company_name, known_info) ==
    LET name_lower == Lower(company_name)
        k == FirstOf({i \in DOMAIN industry_keywords :
                        \E j \in DOMAIN industry_keywords[i].keywords :
                            Contains(industry_keywords[i].keywords[j], name_lower)})
        speakers == SpeakersOf(known_info)
        base == [ industry |-> IF k # 0 THEN industry_keywords[k].industry ELSE "Unknown",
                  size_estimate |-> "Unknown", employee_count_estimate |-> None,
                  headquarters |-> "Unknown", description |-> "", confidence |-> "Low" ]
    IN  IF \E i \in DOMAIN speakers : Contains("service", Lower(speakers[i].title))
        THEN base @@ [field_service_relevance |-> "Has Field Service leadership"]
        ELSE base

\* EnricherAgent._enrich_company: the dict it returns and the cache it leaves;
\* oracle is what gemini.enrich_company does if it is called
enrich_company(enr, oracle, company_name, known_info) ==
    IF company_name \in DOMAIN enr.cache
    THEN [enriched |-> enr.cache[company_name], cache |-> enr.cache]
    ELSE IF enr.gemini /\ ~oracle.raises
    THEN [enriched |-> oracle.result, cache |-> Put(enr.cache, company_name, oracle.result)]
    ELSE [enriched |-> basic_enrichment(company_name, known_info), cache |-> enr.cache]

\* the loop body of EnricherAgent.process: the company as the enriched dict
\* leaves it (an empty dict is falsy and changes nothing)
EnrichedCompany(company, enriched) ==
    IF DOMAIN enriched = {} THEN company
    ELSE LET emp == Get(enriched, "employee_count_estimate", None)
         IN  [ company EXCEPT
                 !.industry = Get(enriched, "industry", company.industry),
                 !.size_category = Get(enriched, "size_estimate", ""),
                 !.description = Get(enriched, "description", ""),
                 !.size = IF ~IsNone(emp) /\ Val(emp) # 0 THEN emp ELSE company.size ]

-----------------------------------------------------------------------------
(* communication/message_bus.py *)

\* MessageBus(): no subscriber, no history, nothing pending
MessageBus == [subscribers |-> <<>>, message_history |-> <<>>, pending_messages |-> EmptyDict]

\* the place of agent_name among the keys of _subscribers, 0 when it is no key
SubscriberIdx(b, agent_name) ==
    FirstOf({i \in DOMAIN b.subscribers : b.subscribers[i].name = agent_name})

\* MessageBus.subscribe
subscribe(b, agent_name, handler) ==
    LET i == SubscriberIdx(b, agent_name)
    IN  IF i # 0
        THEN [b EXCEPT !.subscribers[i].handlers = Append(@, handler)]
        ELSE [b EXCEPT !.subscribers =
                 Append(@, [name |-> agent_name, handlers |-> <<handler>>])]

\* unsubscribe that empties the handler list and keeps the name subscribed
unsubscribe_keep_name(b, agent_name) ==
    LET i == SubscriberIdx(b, agent_name)
    IN  IF i # 0
        THEN [b EXCEPT !.subscribers[i].handlers = <<>>]
        ELSE b

\* MessageBus.unsubscribe
unsubscribe(b, agent_name) ==
    LET i == SubscriberIdx(b, agent_name)
    IN  IF i # 0
        THEN [b EXCEPT !.subscribers = SubSeq(@, 1, i - 1) \o SubSeq(@, i + 1, Len(@))]
        ELSE b

\* get_pending_messages with get in place of pop: the queue is returned and kept
get_pending_messages_keep(b, agent_name) ==
    [messages |-> Get(b.pending_messages, agent_name, <<>>), bus |-> b]

\* MessageBus.get_pending_messages: the list returned and the bus it leaves
get_pending_messages(b, agent_name) ==
    [ messages |-> Get(b.pending_messages, agent_name, <<>>),
      bus |-> [b EXCEPT !.pending_messages =
                  IF agent_name \in DOMAIN @ THEN Del(@, agent_name) ELSE @] ]

\* "if x:" for an optional string: it is given and not empty
Given(o) == ~IsNone(o) /\ Truthy(Val(o))

\* MessageBus.get_history: each filter is applied when its value is truthy
get_history(b, sender, recipient, conversation_id) ==
    LET bySender(m) == m.sender = Val(sender)
        byRecipient(m) == m.recipient = Val(recipient)
        byConversation(m) == m.conversation_id = Val(conversation_id)
        m0 == b.message_history
        m1 == IF Given(sender) THEN SelectSeq(m0, bySender) ELSE m0
        m2 == IF Given(recipient) THEN SelectSeq(m1, byRecipient) ELSE m1
    IN  IF Given(conversation_id) THEN SelectSeq(m2, byConversation) ELSE m2

\* a broadcast without the test "agent_name != message.sender"
RECURSIVE BroadcastHandlersAll(_, _)
BroadcastHandlersAll(subscribers, sender) ==
    IF Len(subscribers) = 0 THEN <<>>
    ELSE subscribers[1].handlers \o BroadcastHandlersAll(Tail(subscribers), sender)

\* the handlers a broadcast from sender reaches, in the order of the loops
RECURSIVE BroadcastHandlers(_, _)
BroadcastHandlers(subscribers, sender) ==
    IF Len(subscribers) = 0 THEN <<>>
    ELSE (IF subscribers[1].name # sender THEN subscribers[1].handlers ELSE <<>>)
         \o BroadcastHandlers(Tail(subscribers), sender)

\* The objects a handler may change are passed as one record, the world:
\* bus, calls, heap, validator, quality, enricher, ids.
World == [ bus |-> bus, calls |-> calls, heap |-> heap, validator |-> validator,
           quality |-> quality, enricher |-> enricher, ids |-> ids ]

\* what a call leaves: the world, the value returned, whether it raised
Outcome(w, response, raised) == [w |-> w, response |-> response, raised |-> raised]

\* a reply that takes the default of the conversation id and not the id of
\* the message it answers
ReplyUnlinked(w, m, sender, message_type, action, payload) ==
    Outcome([w EXCEPT !.ids = @ + 1],
            Some(AgentMessage(w.ids + 1, sender, m.sender, message_type, action, payload,
                              "new")),
            FALSE)

\* the reply of an agent's handler: a message to the sender of the message it
\* answers, in the same conversation
Reply(w, m, sender, message_type, action, payload) ==
    Outcome([w EXCEPT !.ids = @ + 1],
            Some(AgentMessage(w.ids + 1, sender, m.sender, message_type, action, payload,
                              m.conversation_id)),
            FALSE)

\* a validator's handler that writes the revised record over the original, in
\* the object icp_results holds
ValidatorHandleInPlace(w, orc, m) ==
    LET company_name == Get(m.payload, "company_name", "")
        pending == w.validator.pending_validations
    IN  IF m.action = "validate_company" /\ Truthy(company_name)
        THEN Reply(w, m, "ICPValidatorAgent", "RESPONSE", "validation_result",
                   [result |-> validate_company(w.validator.gemini, orc.validate,
                                                company_name,
                                                Get(m.payload, "company_info", EmptyDict))])
        ELSE IF m.action = "dispute_score" /\ company_name \in DOMAIN pending
        THEN Only({ IF r.raised THEN Outcome(w, None, TRUE)
                    ELSE Reply([w EXCEPT !.heap[pending[company_name]] = r.revised],
                               m, "ICPValidatorAgent", "RESPONSE", "dispute_resolved",
                               [ company_name |-> company_name,
                                 original_score |-> w.heap[pending[company_name]].score,
                                 revised_score |-> r.revised.score,
                                 accepted |-> r.revised.score
                                              # w.heap[pending[company_name]].score ]) :
                    r \in { handle_dispute(w.validator.gemini, orc.resolve,
                                           w.heap[pending[company_name]],
                                           Get(m.payload, "reason", ""),
                                           Get(m.payload, "suggested_score", None)) } })
        ELSE IF m.action = "company_enriched" /\ company_name \in DOMAIN pending
        THEN Outcome([w EXCEPT !.heap[pending[company_name]] =
                          update_with_enrichment(@, Get(m.payload, "data", EmptyDict))],
                     None, FALSE)
        ELSE Outcome(w, None, FALSE)

\* ICPValidatorAgent.handle_message
ValidatorHandle(w, orc, m) ==
    LET company_name == Get(m.payload, "company_name", "")
        pending == w.validator.pending_validations
    IN  IF m.action = "validate_company" /\ Truthy(company_name)
        THEN Reply(w, m, "ICPValidatorAgent", "RESPONSE", "validation_result",
                   [result |-> validate_company(w.validator.gemini, orc.validate,
                                                company_name,
                                                Get(m.payload, "company_info", EmptyDict))])
        ELSE IF m.action = "dispute_score" /\ company_name \in DOMAIN pending
        THEN Only({ IF r.raised THEN Outcome(w, None, TRUE)
                    ELSE Reply([w EXCEPT
                                  !.heap = Append(@, r.revised),
                                  !.validator.pending_validations =
                                      Put(@, company_name, Len(w.heap) + 1)],
                               m, "ICPValidatorAgent", "RESPONSE", "dispute_resolved",
                               [ company_name |-> company_name,
                                 original_score |-> w.heap[pending[company_name]].score,
                                 revised_score |-> r.revised.score,
                                 accepted |-> r.revised.score
                                              # w.heap[pending[company_name]].score ]) :
                    r \in { handle_dispute(w.validator.gemini, orc.resolve,
                                           w.heap[pending[company_name]],
                                           Get(m.payload, "reason", ""),
                                           Get(m.payload, "suggested_score", None)) } })
        ELSE IF m.action = "company_enriched" /\ company_name \in DOMAIN pending
        THEN Outcome([w EXCEPT !.heap[pending[company_name]] =
                          update_with_enrichment(@, Get(m.payload, "data", EmptyDict))],
                     None, FALSE)
        ELSE Outcome(w, None, FALSE)

\* QualityAgent.handle_message
QualityHandle(w, orc, m) ==
    LET company_name == Get(m.payload, "company_name", "")
    IN  IF m.action = "review_score"
        THEN Only({ IF review.should_dispute
                    THEN Reply(w, m, "QualityAgent", "DISPUTE", "dispute_score",
                               [ company_name |-> company_name, reason |-> review.reason,
                                 suggested_score |-> review.suggested_score ])
                    ELSE Reply(w, m, "QualityAgent", "CONFIRM", "score_confirmed",
                               [company_name |-> company_name]) :
                    review \in { review_score_data(w.quality.gemini, orc.review,
                                                   m.payload.result,
                                                   Get(m.payload, "company_info",
                                                       EmptyDict)) } })
        ELSE IF m.action = "dispute_resolved"
                  /\ company_name \in DOMAIN w.quality.reviews_completed
        THEN Outcome([w EXCEPT !.quality.reviews_completed[company_name] =
                          [x \in DOMAIN @ \cup {"resolution"} |->
                             IF x = "resolution"
                             THEN [ accepted |-> Get(m.payload, "accepted", FALSE),
                                    original_score |-> m.payload.original_score,
                                    revised_score |-> m.payload.revised_score ]
                             ELSE @[x]]],
                     None, FALSE)
        ELSE Outcome(w, None, FALSE)

\* EnricherAgent._infer_industry
infer_industry(cache, company_name) ==
    LET name_lower == Lower(company_name)
        has(x) == Contains(x, name_lower)
    IN  IF company_name \in DOMAIN cache THEN Get(cache[company_name], "industry", "Unknown")
        ELSE IF has("medical") \/ has("health") \/ has("pharma") THEN "Healthcare/Medical"
        ELSE IF has("tech") \/ has("software") \/ has("digital") THEN "Technology"
        ELSE IF has("energy") \/ has("power") \/ has("electric") THEN "Energy/Utilities"
        ELSE IF has("manufacturing") \/ has("industrial") THEN "Manufacturing"
        ELSE "Unknown"

\* EnricherAgent.handle_message
EnricherHandle(w, orc, m) ==
    LET company_name == Get(m.payload, "company_name", "")
    IN  IF m.action = "enrich_company" /\ Truthy(company_name)
        THEN Only({ Reply([w EXCEPT !.enricher.cache = e.cache], m, "EnricherAgent",
                          "RESPONSE", "company_enriched",
                          [company_name |-> company_name, data |-> e.enriched]) :
                    e \in { enrich_company(w.enricher, orc.enrich, company_name,
                                           Get(m.payload, "known_info", EmptyDict)) } })
        ELSE IF m.action = "get_industry"
        THEN Reply(w, m, "EnricherAgent", "RESPONSE", "industry_response",
                   [ company_name |-> company_name,
                     industry |-> infer_industry(w.enricher.cache, company_name) ])
        ELSE Outcome(w, None, FALSE)

\* ScraperAgent.handle_message: the page it fetches is outside the model
ScraperHandle(w, orc, m) ==
    IF m.action = "scrape_page" /\ Truthy(Get(m.payload, "url", ""))
    THEN Reply(w, m, "ScraperAgent", "RESPONSE", "page_content", [html |-> None])
    ELSE Outcome(w, None, FALSE)

\* OrchestratorAgent.handle_message: it logs and returns None
OrchestratorHandle(w, orc, m) == Outcome(w, None, FALSE)

\* A handler subscribed to the bus is either an agent's _on_message,
\* [kind |-> "agent", id |-> the agent's name], or a recording callable of the
\* caller, [kind |-> ..., id |-> its serial number], which notes the message it
\* is called with and then, by its kind,
\*   "none":  returns None;
\*   "resp":  returns a reply;
\*   "raise": raises;
\*   "send":  unless the message is itself such a nested one, sends a message
\*            of its own to the sender's name over the bus, and returns None.
RECURSIVE send(_, _, _)
Invoke(w, orc, h, m) ==
    IF h.kind = "agent"
    THEN CASE h.id = "ICPValidatorAgent" -> ValidatorHandle(w, orc, m)
           [] h.id = "QualityAgent" -> QualityHandle(w, orc, m)
           [] h.id = "EnricherAgent" -> EnricherHandle(w, orc, m)
           [] h.id = "ScraperAgent" -> ScraperHandle(w, orc, m)
           [] OTHER -> OrchestratorHandle(w, orc, m)
    ELSE LET noted == [w EXCEPT !.calls = Append(@, [handler |-> h.id, message |-> m.id])]
         IN  CASE h.kind = "resp" ->
                    Reply(noted, m, m.recipient, "RESPONSE", "reply",
                          [by |-> h.id, re |-> m.id])
               [] h.kind = "raise" -> Outcome(noted, None, TRUE)
               [] h.kind = "send" /\ m.action # "nested" ->
                    Only({ Outcome(r.w, None, r.raised) :
                           r \in { send([noted EXCEPT !.ids = @ + 1], orc,
                                        AgentMessage(noted.ids + 1, m.recipient, m.sender,
                                                     "REQUEST", "nested",
                                                     [by |-> h.id, within |-> m.id],
                                                     m.conversation_id)) } })
               [] OTHER -> Outcome(noted, None, FALSE)

\* the loop of a broadcast: every handler is called, what it returns is dropped
RECURSIVE BroadcastLoop(_, _, _, _)
BroadcastLoop(w, orc, handlers, m) ==
    IF Len(handlers) = 0 THEN Outcome(w, None, FALSE)
    ELSE Only({ IF r.raised THEN Outcome(r.w, None, TRUE)
                ELSE BroadcastLoop(r.w, orc, Tail(handlers), m) :
                r \in {Invoke(w, orc, handlers[1], m)} })

\* a point-to-point loop that keeps the last response instead of returning
\* the first
RECURSIVE DeliverLoopLast(_, _, _, _)
DeliverLoopLast(w, orc, handlers, m) ==
    IF Len(handlers) = 0 THEN Outcome(w, None, FALSE)
    ELSE Only({ IF r.raised THEN Outcome(r.w, None, TRUE)
                ELSE Only({ IF rest.raised \/ ~IsNone(rest.response) \/ IsNone(r.response)
                            THEN rest
                            ELSE Outcome([rest.w EXCEPT !.bus.message_history =
                                             Append(@, Val(r.response))],
                                         r.response, FALSE) :
                            rest \in {DeliverLoopLast(r.w, orc, Tail(handlers), m)} }) :
                r \in {Invoke(w, orc, handlers[1], m)} })

\* a point-to-point loop that returns the first response but calls the
\* handlers after it as well
RECURSIVE DeliverLoopAll(_, _, _, _)
DeliverLoopAll(w, orc, handlers, m) ==
    IF Len(handlers) = 0 THEN Outcome(w, None, FALSE)
    ELSE Only({ IF r.raised THEN Outcome(r.w, None, TRUE)
                ELSE IF IsNone(r.response)
                THEN DeliverLoopAll(r.w, orc, Tail(handlers), m)
                ELSE Only({ Outcome([rest.w EXCEPT !.bus.message_history =
                                        Append(@, Val(r.response))],
                                    r.response, rest.raised) :
                            rest \in {BroadcastLoop(r.w, orc, Tail(handlers), m)} }) :
                r \in {Invoke(w, orc, handlers[1], m)} })

\* a point-to-point loop that catches what a handler raises and goes on with
\* the next handler
RECURSIVE DeliverLoopCatch(_, _, _, _)
DeliverLoopCatch(w, orc, handlers, m) ==
    IF Len(handlers) = 0 THEN Outcome(w, None, FALSE)
    ELSE Only({ IF ~r.raised /\ ~IsNone(r.response)
                THEN Outcome([r.w EXCEPT !.bus.message_history =
                                 Append(@, Val(r.response))],
                             r.response, FALSE)
                ELSE DeliverLoopCatch(r.w, orc, Tail(handlers), m) :
                r \in {Invoke(w, orc, handlers[1], m)} })

\* the loop of a point-to-point send: the first response that is not None
\* is recorded and returned, and the handlers after it are not called
RECURSIVE DeliverLoop(_, _, _, _)
DeliverLoop(w, orc, handlers, m) ==
    IF Len(handlers) = 0 THEN Outcome(w, None, FALSE)
    ELSE Only({ IF r.raised THEN Outcome(r.w, None, TRUE)
                ELSE IF ~IsNone(r.response)
                THEN Outcome([r.w EXCEPT !.bus.message_history =
                                 Append(@, Val(r.response))],
                             r.response, FALSE)
                ELSE DeliverLoop(r.w, orc, Tail(handlers), m) :
                r \in {Invoke(w, orc, handlers[1], m)} })

\* a send that records only the messages it can deliver
send_deliverable_only(w, orc, message) ==
    LET w1 == [w EXCEPT !.bus.message_history = Append(@, message)]
        i == SubscriberIdx(w.bus, message.recipient)
    IN  IF message.recipient = "ALL"
        THEN BroadcastLoop(w1, orc, BroadcastHandlers(w1.bus.subscribers, message.sender),
                           message)
        ELSE IF i # 0
        THEN DeliverLoop(w1, orc, w1.bus.subscribers[i].handlers, message)
        ELSE Outcome([w EXCEPT !.bus.pending_messages =
                         Put(@, message.recipient,
                             Append(Get(@, message.recipient, <<>>), message))],
                     None, FALSE)

\* MessageBus.send
send(w, orc, message) ==
    LET w1 == [w EXCEPT !.bus.message_history = Append(@, message)]
        i == SubscriberIdx(w1.bus, message.recipient)
    IN  IF message.recipient = "ALL"
        THEN BroadcastLoop(w1, orc, BroadcastHandlers(w1.bus.subscribers, message.sender),
                           message)
        ELSE IF i # 0
        THEN DeliverLoop(w1, orc, w1.bus.subscribers[i].handlers, message)
        ELSE Outcome([w1 EXCEPT !.bus.pending_messages =
                         Put(@, message.recipient,
                             Append(Get(@, message.recipient, <<>>), message))],
                     None, FALSE)

-----------------------------------------------------------------------------
(* agents/base_agent.py *)

\* BaseAgent.send_message: conversation_id is None at every call of the
\* repository, and "conversation_id or ''" makes it the empty string
send_message(w, orc, sender, recipient, message_type, action, payload) ==
    send([w EXCEPT !.ids = @ + 1], orc,
         AgentMessage(w.ids + 1, sender, recipient, message_type, action, payload, ""))

-----------------------------------------------------------------------------
(* The state after construction *)

\* no oracle call is made, or every oracle call fails
NoOracle ==
    [ enrich |-> [raises |-> TRUE], validate |-> [raises |-> TRUE],
      review |-> [raises |-> TRUE], resolve |-> [raises |-> TRUE] ]

\* ICPValidatorAgent(message_bus, gemini_client)
NewValidator(gemini) == [gemini |-> gemini, pending_validations |-> EmptyDict]

\* QualityAgent(message_bus, gemini_client)
NewQuality(gemini) == [gemini |-> gemini, reviews_completed |-> EmptyDict]

\* EnricherAgent(message_bus, gemini_client)
NewEnricher(gemini) == [gemini |-> gemini, cache |-> EmptyDict]

\* OrchestratorAgent(message_bus, gemini_client), its own fields
NewOrchestrator == [pipeline_status |-> EmptyDict]

AgentHandler(name) == [kind |-> "agent", id |-> name]

\* agents that are not constructed
NoAgents ==
    /\ validator = NewValidator(FALSE)
    /\ quality = NewQuality(FALSE)
    /\ enricher = NewEnricher(FALSE)
    /\ orchestrator = NewOrchestrator

\* a context that is newly constructed
NewContext ==
    /\ context = AgentContext
    /\ checkpoints = EmptyDict
    /\ heap = <<>>

\* the world a call left becomes the state
Becomes(w) ==
    /\ bus' = w.bus
    /\ calls' = w.calls
    /\ heap' = w.heap
    /\ validator' = w.validator
    /\ quality' = w.quality
    /\ enricher' = w.enricher
    /\ ids' = w.ids

-----------------------------------------------------------------------------
(* agents/base_agent.py: execute *)

\* what a process leaves: the world, the context, whether it raised
Done(w, ctx, raised) == [w |-> w, ctx |-> ctx, raised |-> raised]

\* "for msg in pending: self.handle_message(msg)"
RECURSIVE HandleAll(_, _, _)
HandleAll(w, agent_name, messages) ==
    IF Len(messages) = 0 THEN Outcome(w, None, FALSE)
    ELSE Only({ IF r.raised THEN Outcome(r.w, None, TRUE)
                ELSE HandleAll(r.w, agent_name, Tail(messages)) :
                r \in {Invoke(w, NoOracle, AgentHandler(agent_name), messages[1])} })

\* the first half of execute: the pending messages are taken off the bus and
\* handled
Drain(w, agent_name) ==
    LET p == get_pending_messages(w.bus, agent_name)
    IN  HandleAll([w EXCEPT !.bus = p.bus], agent_name, p.messages)

\* an execute that catches the error and records nothing
CaughtSilent(agent_name, done) ==
    Only({ IF d.raised THEN Done(d.w, d.ctx, FALSE) ELSE d : d \in {done} })

\* the except clause of execute: an exception becomes an error of the context
Caught(agent_name, done) ==
    Only({ IF d.raised
           THEN Done(d.w, [d.ctx EXCEPT !.errors = Append(@, agent_name \o ": error")],
                     FALSE)
           ELSE d :
           d \in {done} })

-----------------------------------------------------------------------------
(* agents/scraper_agent.py *)

Spaces == " "

\* str.strip, of spaces
RECURSIVE Strip(_)
Strip(s) ==
    IF Len(s) = 0 THEN s
    ELSE IF SubSeq(s, 1, 1) = Spaces THEN Strip(SubSeq(s, 2, Len(s)))
    ELSE IF SubSeq(s, Len(s), Len(s)) = Spaces THEN Strip(SubSeq(s, 1, Len(s) - 1))
    ELSE s

\* the place of a name in the list of companies, 0 when it is not there
CompanyIdx(companies, name) ==
    FirstOf({i \in DOMAIN companies : companies[i].name = name})

\* the loops of _extract_companies over speakers and over attendees: field is
\* "speakers" or "attendees", source the tag of a company met for the first time
RECURSIVE ExtractPeople(_, _, _, _)
ExtractPeople(companies, people, field, source) ==
    IF Len(people) = 0 THEN companies
    ELSE LET p == people[1]
             name == Strip(p.company)
             i == CompanyIdx(companies, name)
             known == IF i # 0 THEN companies
                      ELSE Append(companies, Company(name, "", None, source))
             k == IF i # 0 THEN i ELSE Len(known)
             noted == [known EXCEPT ![k][field] = Append(@, p.name)]
         IN  ExtractPeople(IF Truthy(p.company) THEN noted ELSE companies,
                           Tail(people), field, source)

\* the loop of _extract_companies over the logos, each given by its alt text
RECURSIVE ExtractLogos(_, _)
ExtractLogos(companies, logos) ==
    IF Len(logos) = 0 THEN companies
    ELSE LET name == Strip(logos[1])
         IN  ExtractLogos(IF Len(name) > 2 /\ CompanyIdx(companies, name) = 0
                          THEN Append(companies, Company(name, "", None, "logo"))
                          ELSE companies,
                          Tail(logos))

\* ScraperAgent._extract_companies
extract_companies(speakers, attendees, logos) ==
    ExtractLogos(ExtractPeople(ExtractPeople(<<>>, speakers, "speakers", "speaker"),
                               attendees, "attendees", "attendee"),
                 logos)

\* ScraperAgent.process, of the speakers, attendees and logos its pages give
ScraperProcess(w, ctx, speakers, attendees, logos) ==
    Only({ Only({ Done(s.w,
                       [ctx EXCEPT !.conference_data =
                           Some(ConferenceData(speakers, attendees, companies))],
                       s.raised) :
                  s \in { send_message(w, NoOracle, "ScraperAgent", "OrchestratorAgent",
                                       "RESPONSE", "scrape_complete",
                                       [ speakers_count |-> Len(speakers),
                                         attendees_count |-> Len(attendees),
                                         companies_count |-> Len(companies) ]) } }) :
           companies \in {extract_companies(speakers, attendees, logos)} })

\* ScraperAgent.execute; failed says that fetching or parsing raised
ScraperExecute(w, ctx, failed, speakers, attendees, logos) ==
    Only({ Caught("ScraperAgent",
                  IF dr.raised \/ failed
                  THEN Done(dr.w, [ctx EXCEPT !.current_agent = "ScraperAgent"], TRUE)
                  ELSE ScraperProcess(dr.w, [ctx EXCEPT !.current_agent = "ScraperAgent"],
                                      speakers, attendees, logos)) :
           dr \in {Drain(w, "ScraperAgent")} })

-----------------------------------------------------------------------------
(* The process methods of the agents. orcs gives, for each company name,    *)
(* what the oracle does in the calls made for that company.                 *)

\* the loop of EnricherAgent.process, from the i-th company on
RECURSIVE EnrichLoop(_, _, _, _)
EnrichLoop(w, ctx, orcs, i) ==
    IF i > Len(Val(ctx.conference_data).companies) THEN Done(w, ctx, FALSE)
    ELSE Only({ Only({ EnrichLoop([w EXCEPT !.enricher.cache = e.cache],
                                  [ctx EXCEPT !.conference_data[1].companies[i] =
                                      EnrichedCompany(company, e.enriched)],
                                  orcs, i + 1) :
                       e \in { enrich_company(w.enricher, orcs[company.name].enrich,
                                              company.name,
                                              get_company_details(ctx, company.name)) } }) :
                company \in {Val(ctx.conference_data).companies[i]} })

\* EnricherAgent.process
EnricherProcess(w, ctx, orcs) ==
    IF IsNone(ctx.conference_data) THEN Done(w, ctx, FALSE)
    ELSE Only({ Only({ Done(s.w, l.ctx, s.raised) :
                       s \in { send_message(l.w, NoOracle, "EnricherAgent",
                                            "OrchestratorAgent", "RESPONSE",
                                            "enrichment_complete",
                                            [companies_enriched |->
                                               Len(Val(ctx.conference_data).companies)]) } }) :
                l \in {EnrichLoop(w, ctx, orcs, 1)} })

\* EnricherAgent.execute
EnricherExecute(w, ctx, orcs) ==
    Only({ Caught("EnricherAgent",
                  IF dr.raised
                  THEN Done(dr.w, [ctx EXCEPT !.current_agent = "EnricherAgent"], TRUE)
                  ELSE EnricherProcess(dr.w, [ctx EXCEPT !.current_agent = "EnricherAgent"],
                                       orcs)) :
           dr \in {Drain(w, "EnricherAgent")} })

\* "self._pending_validations[company_name] = result", of a new result
Stored(w, company_name, result) ==
    [w EXCEPT !.heap = Append(@, result),
              !.validator.pending_validations = Put(@, company_name, Len(w.heap) + 1)]

\* the loop of ICPValidatorAgent.process, from the i-th name of companies on
RECURSIVE ValidateLoop(_, _, _, _, _)
ValidateLoop(w, ctx, orcs, companies, i) ==
    IF i > Len(companies) THEN Done(w, ctx, FALSE)
    ELSE
      Only({
        Only({
          IF s1.raised THEN Done(s1.w, ctx, TRUE)
          ELSE
            Only({
              Only({
                IF s2.raised THEN Done(s2.w, ctx, TRUE)
                ELSE ValidateLoop(s2.w,
                                  [ctx EXCEPT !.icp_results =
                                      add_icp_result(@, s2.w.heap, Len(s1.w.heap) + 1)],
                                  orcs, companies, i + 1) :
                s2 \in { IF result.score >= threshold_medium
                         THEN send_message(Stored(s1.w, companies[i], result),
                                           orcs[companies[i]], "ICPValidatorAgent",
                                           "QualityAgent", "REQUEST", "review_score",
                                           [ company_name |-> companies[i],
                                             result |-> result,
                                             company_info |-> company_info ])
                         ELSE Outcome(Stored(s1.w, companies[i], result), None, FALSE) } }) :
              result \in { validate_company(s1.w.validator.gemini,
                                            orcs[companies[i]].validate, companies[i],
                                            company_info) } }) :
          s1 \in { send_message(w, orcs[companies[i]], "ICPValidatorAgent", "EnricherAgent",
                                "REQUEST", "enrich_company",
                                [ company_name |-> companies[i],
                                  known_info |-> company_info ]) } }) :
        company_info \in {get_company_details(ctx, companies[i])} })

\* sum(1 for r in context.icp_results if r.fit_level == level)
FitCount(h, results, level) ==
    Cardinality({i \in DOMAIN results : h[results[i]].fit_level = level})

\* ICPValidatorAgent.process; companies is the list get_companies returned
ValidatorProcess(w, ctx, orcs, companies) ==
    IF IsNone(ctx.conference_data) THEN Done(w, ctx, FALSE)
    ELSE Only({ IF l.raised THEN l
                ELSE Only({ Done(s.w, l.ctx, s.raised) :
                            s \in { send_message(
                                      l.w, NoOracle, "ICPValidatorAgent",
                                      "OrchestratorAgent", "RESPONSE", "validation_complete",
                                      [ total |-> Len(companies),
                                        high_fit |->
                                          FitCount(l.w.heap, l.ctx.icp_results, "High"),
                                        medium_fit |->
                                          FitCount(l.w.heap, l.ctx.icp_results, "Medium"),
                                        low_fit |->
                                          FitCount(l.w.heap, l.ctx.icp_results, "Low") ]) } }) :
                l \in {ValidateLoop(w, ctx, orcs, companies, 1)} })

\* ICPValidatorAgent.execute
ValidatorExecute(w, ctx, orcs, companies) ==
    Only({ Caught("ICPValidatorAgent",
                  IF dr.raised
                  THEN Done(dr.w, [ctx EXCEPT !.current_agent = "ICPValidatorAgent"], TRUE)
                  ELSE ValidatorProcess(dr.w,
                                        [ctx EXCEPT !.current_agent = "ICPValidatorAgent"],
                                        orcs, companies)) :
           dr \in {Drain(w, "ICPValidatorAgent")} })

\* "self._reviews_completed[result.company_name] = review"
Reviewed(w, company_name, review) ==
    [w EXCEPT !.quality.reviews_completed = Put(@, company_name, review)]

\* the loop of QualityAgent.process, from the i-th result on; n counts the
\* disputes so far
RECURSIVE ReviewLoop(_, _, _, _, _)
ReviewLoop(w, ctx, orcs, i, n) ==
    IF i > Len(ctx.icp_results) THEN [w |-> w, raised |-> FALSE, disputes |-> n]
    ELSE
      Only({
        Only({
          IF ~review.should_dispute
          THEN ReviewLoop(Reviewed(w, result.company_name, review), ctx, orcs, i + 1, n)
          ELSE
            Only({ IF s.raised THEN [w |-> s.w, raised |-> TRUE, disputes |-> n + 1]
                   ELSE ReviewLoop(s.w, ctx, orcs, i + 1, n + 1) :
                   s \in { send_message(Reviewed(w, result.company_name, review),
                                        orcs[result.company_name], "QualityAgent",
                                        "ICPValidatorAgent", "DISPUTE", "dispute_score",
                                        [ company_name |-> result.company_name,
                                          reason |-> review.reason,
                                          suggested_score |-> review.suggested_score ]) } }) :
          review \in { review_score_data(w.quality.gemini,
                                         orcs[result.company_name].review, result,
                                         get_company_details(ctx, result.company_name)) } }) :
        result \in {w.heap[ctx.icp_results[i]]} })

\* a reviewer's process that reviews nothing and reports no dispute
QualityProcessIdle(w, ctx, orcs) ==
    IF Len(ctx.icp_results) = 0 THEN Done(w, ctx, FALSE)
    ELSE Only({ Done(s.w, ctx, s.raised) :
                s \in { send_message(
                          w, NoOracle, "QualityAgent", "OrchestratorAgent",
                          "RESPONSE", "quality_review_complete",
                          [ total_reviewed |-> Len(ctx.icp_results),
                            confirmed |-> Len(ctx.icp_results), disputed |-> 0 ]) } })

\* QualityAgent.process
QualityProcess(w, ctx, orcs) ==
    IF Len(ctx.icp_results) = 0 THEN Done(w, ctx, FALSE)
    ELSE Only({ IF l.raised THEN Done(l.w, ctx, TRUE)
                ELSE Only({ Done(s.w, ctx, s.raised) :
                            s \in { send_message(
                                      l.w, NoOracle, "QualityAgent", "OrchestratorAgent",
                                      "RESPONSE", "quality_review_complete",
                                      [ total_reviewed |-> Len(ctx.icp_results),
                                        confirmed |-> Len(ctx.icp_results) - l.disputes,
                                        disputed |-> l.disputes ]) } }) :
                l \in {ReviewLoop(w, ctx, orcs, 1, 0)} })

\* QualityAgent.execute
QualityExecute(w, ctx, orcs) ==
    Only({ Caught("QualityAgent",
                  IF dr.raised
                  THEN Done(dr.w, [ctx EXCEPT !.current_agent = "QualityAgent"], TRUE)
                  ELSE QualityProcess(dr.w, [ctx EXCEPT !.current_agent = "QualityAgent"],
                                      orcs)) :
           dr \in {Drain(w, "QualityAgent")} })

-----------------------------------------------------------------------------
(* agents/orchestrator_agent.py *)

\* OrchestratorAgent(message_bus, gemini_client): the orchestrator subscribes,
\* then the scraper, the enricher, the validator and the quality agent
ConstructedBus ==
    subscribe(subscribe(subscribe(subscribe(subscribe(MessageBus,
        "OrchestratorAgent", AgentHandler("OrchestratorAgent")),
        "ScraperAgent", AgentHandler("ScraperAgent")),
        "EnricherAgent", AgentHandler("EnricherAgent")),
        "ICPValidatorAgent", AgentHandler("ICPValidatorAgent")),
        "QualityAgent", AgentHandler("QualityAgent"))

\* main.run_pipeline up to the call of the orchestrator: gemini says whether a
\* client could be made
Constructed(gemini) ==
    /\ bus = ConstructedBus
    /\ calls = <<>>
    /\ ids = 0
    /\ NewContext
    /\ validator = NewValidator(gemini)
    /\ quality = NewQuality(gemini)
    /\ enricher = NewEnricher(gemini)
    /\ orchestrator = NewOrchestrator
    /\ ret = [op |-> "init"]
    /\ log = <<>>

\* OrchestratorAgent._update_status
update_status(o, stage, status) ==
    [o EXCEPT !.pipeline_status = Put(@, stage, status)]

\* phases 1b and 1c of process: attendees read from OCR text or from a PDF are
\* added, and a company for each affiliation not yet known by any spelling
RECURSIVE MergeCompanies(_, _, _)
MergeCompanies(companies, attendees, source) ==
    IF Len(attendees) = 0 THEN companies
    ELSE LET a == attendees[1]
             existing == \E i \in DOMAIN companies :
                            Lower(companies[i].name) = Lower(a.company)
         IN  MergeCompanies(IF Truthy(a.company) /\ ~existing
                            THEN Append(companies, Company(a.company, "", None, source))
                            ELSE companies,
                            Tail(attendees), source)

MergeAttendees(ctx, attendees, source) ==
    IF Len(attendees) = 0 \/ IsNone(ctx.conference_data) THEN ctx
    ELSE [ctx EXCEPT !.conference_data[1] =
             [@ EXCEPT !.attendees = @ \o attendees,
                       !.companies = MergeCompanies(@, attendees, source)]]

\* a gate that lets conference data without companies pass
NoDataUnset(ctx) == IsNone(ctx.conference_data)

\* the gate of process: no data, or no company
NoData(ctx) ==
    IsNone(ctx.conference_data) \/ Len(Val(ctx.conference_data).companies) = 0

\* the data of run_demo
demo_speakers ==
    << Speaker("Haroon Abbu", "SVP, Digital, Data & Analytics", "Bell + Howell"),
       Speaker("Adam Gloss", "SVP, Service", "McKinstry"),
       Speaker("Joseph Lang", "VP Service Technology", "Comfort Systems USA"),
       Speaker("Patrick Van Wert", "VP Aftermarket", "Tennant Co."),
       Speaker("Thomas Shanks", "Director of Operations", "TK Elevator"),
       Speaker("Alban Cambournac", "VP Consulting & Digital Services", "Schneider Electric"),
       Speaker("Chris Westlake", "VP Life Sciences Technical Services", "Genpact"),
       Speaker("Jessica Murillo", "COO, Technology Lifecycle Services", "IBM"),
       Speaker("Michelle Vaccarello", "VP North America Services", "Diebold Nixdorf"),
       Speaker("Nick Cribb", "President & CEO", "Sam Service Inc") >>

demo_industries ==
    << "Industrial Automation", "Building Services", "HVAC", "Manufacturing",
       "Elevator/Escalator", "Energy/Automation", "Professional Services", "Technology",
       "Financial Services Tech", "Field Service" >>

demo_companies ==
    [ i \in DOMAIN demo_speakers |->
        [ Company(demo_speakers[i].company, demo_industries[i], None, "speaker")
          EXCEPT !.speakers = << demo_speakers[i].name >> ] ]

-----------------------------------------------------------------------------
(* A bus used on its own: callers subscribe recording handlers under two    *)
(* names, send, and drain the pending queues.                               *)

BusAgents == {"AgentA", "AgentB"}
HandlerKinds == {"none", "resp"}

InitBus ==
    /\ bus = MessageBus
    /\ calls = <<>>
    /\ ids = 0
    /\ NewContext
    /\ NoAgents
    /\ pc = "bus"
    /\ ret = [op |-> "init"]
    /\ log = <<>>

\* the handlers subscribed so far
Subscriptions(l) == Cardinality({i \in DOMAIN l : l[i].op = "subscribe"})

\* bus.subscribe(agent_name, handler), the handler a new callable
BusSubscribe(agent_name, kind) ==
    /\ pc = "bus" /\ Len(log) < MaxOps
    /\ LET handler == [kind |-> kind, id |-> Subscriptions(log) + 1]
       IN  /\ bus' = subscribe(bus, agent_name, handler)
           /\ log' = Append(log, [op |-> "subscribe", agent |-> agent_name,
                                  handler |-> handler])
    /\ ret' = [op |-> "subscribe"]
    /\ UNCHANGED <<calls, context, checkpoints, heap, validator, quality, enricher,
                   orchestrator, ids, pc>>

\* bus.unsubscribe(agent_name)
BusUnsubscribe(agent_name) ==
    /\ pc = "bus" /\ Len(log) < MaxOps
    /\ bus' = unsubscribe(bus, agent_name)
    /\ log' = Append(log, [op |-> "unsubscribe", agent |-> agent_name])
    /\ ret' = [op |-> "unsubscribe"]
    /\ UNCHANGED <<calls, context, checkpoints, heap, validator, quality, enricher,
                   orchestrator, ids, pc>>

\* bus.send(AgentMessage(sender=..., recipient=..., ...))
BusSend(sender, recipient) ==
    /\ pc = "bus" /\ Len(log) < MaxOps
    /\ LET message == AgentMessage(ids + 1, sender, recipient, "REQUEST", "ping",
                                   EmptyDict, "c1")
           r == send([World EXCEPT !.ids = @ + 1], NoOracle, message)
       IN  /\ Becomes(r.w)
           /\ ret' = [op |-> "send", message |-> message, response |-> r.response,
                      raised |-> r.raised]
           /\ log' = Append(log, [op |-> "send", message |-> message])
    /\ UNCHANGED <<context, checkpoints, orchestrator, pc>>

\* bus.get_pending_messages(agent_name)
BusGetPending(agent_name) ==
    /\ pc = "bus" /\ Len(log) < MaxOps
    /\ LET r == get_pending_messages(bus, agent_name)
       IN  /\ bus' = r.bus
           /\ ret' = [op |-> "get_pending", agent |-> agent_name, messages |-> r.messages]
    /\ log' = Append(log, [op |-> "get_pending", agent |-> agent_name])
    /\ UNCHANGED <<calls, context, checkpoints, heap, validator, quality, enricher,
                   orchestrator, ids, pc>>

NextBus ==
    \/ \E a \in BusAgents, k \in HandlerKinds : BusSubscribe(a, k)
    \/ \E a \in BusAgents : BusUnsubscribe(a)
    \/ \E a \in BusAgents, b \in BusAgents \cup {"ALL"} : BusSend(a, b)
    \/ \E a \in BusAgents : BusGetPending(a)

SpecBus == InitBus /\ [][NextBus]_vars

-----------------------------------------------------------------------------
(* What the log of a bus says: the operations applied, in order *)

Front(l) == SubSeq(l, 1, Len(l) - 1)
Last(l) == l[Len(l)]

\* the handlers subscribed under a name and not unsubscribed since, in the
\* order of the subscribe calls
RECURSIVE RegisteredHandlers(_, _)
RegisteredHandlers(l, a) ==
    IF Len(l) = 0 THEN <<>>
    ELSE LET e == Last(l)
         IN  IF e.op = "unsubscribe" /\ e.agent = a THEN <<>>
             ELSE IF e.op = "subscribe" /\ e.agent = a
             THEN Append(RegisteredHandlers(Front(l), a), e.handler)
             ELSE RegisteredHandlers(Front(l), a)

\* the messages sent to a name while no handler was subscribed under it and
\* not drained since, in the order of the send calls
RECURSIVE SentWhileUnregistered(_, _)
SentWhileUnregistered(l, a) ==
    IF Len(l) = 0 THEN <<>>
    ELSE LET e == Last(l)
         IN  IF e.op = "get_pending" /\ e.agent = a THEN <<>>
             ELSE IF e.op = "send" /\ e.message.recipient = a
                       /\ Len(RegisteredHandlers(Front(l), a)) = 0
             THEN Append(SentWhileUnregistered(Front(l), a), e.message)
             ELSE SentWhileUnregistered(Front(l), a)

\* how often a recording handler was called with a message
CallCount(handler_id, message_id) ==
    Cardinality({k \in DOMAIN calls :
                   calls[k] = [handler |-> handler_id, message |-> message_id]})

\* the recording handlers called with a message, in the order of the calls
CalledWith(message_id) ==
    LET with(c) == c.message = message_id
        mine == SelectSeq(calls, with)
    IN  [k \in DOMAIN mine |-> mine[k].handler]

-----------------------------------------------------------------------------
(* Claims about the bus, under SpecBus *)

\* C8: a send to "ALL" calls every handler subscribed under a name other than
\* the sender exactly once and no handler of the sender, returns None without
\* raising, records no response, and queues the message nowhere.
C8_BroadcastDelivery ==
    (ret.op = "send" /\ ret.message.recipient = "ALL") =>
        /\ IsNone(ret.response)
        /\ ~ret.raised
        /\ Last(bus.message_history) = ret.message
        /\ \A a \in BusAgents :
             LET hs == RegisteredHandlers(Front(log), a)
             IN  \A i \in DOMAIN hs :
                   CallCount(hs[i].id, ret.message.id)
                     = IF a = ret.message.sender THEN 0 ELSE 1
        /\ \A a \in DOMAIN bus.pending_messages :
             \A k \in DOMAIN bus.pending_messages[a] :
                 bus.pending_messages[a][k].id # ret.message.id

\* C8 happens: a broadcast while the sender and the other name both have
\* handlers, one of which replies
C8_Witness ==
    /\ ret.op = "send" /\ ret.message.recipient = "ALL"
    /\ Len(RegisteredHandlers(Front(log), ret.message.sender)) > 0
    /\ \E a \in BusAgents \ {ret.message.sender} :
         \E i \in DOMAIN RegisteredHandlers(Front(log), a) :
             RegisteredHandlers(Front(log), a)[i].kind = "resp"

\* C9: a send to a name without subscriber does not raise, and
\* get_pending_messages returns exactly the messages sent to the name while it
\* had no subscriber and not yet drained, in send order, so that a second
\* drain right after returns the empty list.
C9_PendingQueue ==
    /\ (ret.op = "send" /\ ret.message.recipient # "ALL"
          /\ Len(RegisteredHandlers(Front(log), ret.message.recipient)) = 0)
         => (~ret.raised /\ IsNone(ret.response))
    /\ ret.op = "get_pending"
         => ret.messages = SentWhileUnregistered(Front(log), ret.agent)

\* C9 happens: two messages sent to an unregistered name are drained after
\* the name subscribed
C9_Witness ==
    /\ ret.op = "get_pending"
    /\ Len(ret.messages) = 2
    /\ Len(RegisteredHandlers(log, ret.agent)) > 0

\* C10: a point-to-point send to a registered name tries the handlers in
\* registration order up to the first that returns a response; send returns
\* that response and appends exactly it to the history after the message;
\* when no handler returns a response every handler was tried, send returns
\* None and nothing but the message is recorded.
C10_FirstResponse ==
    (ret.op = "send" /\ ret.message.recipient # "ALL"
       /\ Len(RegisteredHandlers(Front(log), ret.message.recipient)) > 0) =>
        LET hs == RegisteredHandlers(Front(log), ret.message.recipient)
            k == FirstOf({i \in DOMAIN hs : hs[i].kind = "resp"})
            tried == IF k = 0 THEN hs ELSE SubSeq(hs, 1, k)
            history == bus.message_history
        IN  /\ ~ret.raised
            /\ CalledWith(ret.message.id) = [i \in DOMAIN tried |-> tried[i].id]
            /\ IF k = 0
               THEN IsNone(ret.response) /\ Last(history) = ret.message
               ELSE /\ ~IsNone(ret.response)
                    /\ Val(ret.response).payload.by = hs[k].id
                    /\ Last(history) = Val(ret.response)
                    /\ history[Len(history) - 1] = ret.message

\* C10 happens: the first handler returns None, the second a response, and a
\* third is subscribed after it
C10_Witness ==
    /\ ret.op = "send" /\ ret.message.recipient # "ALL"
    /\ LET hs == RegisteredHandlers(Front(log), ret.message.recipient)
       IN  Len(hs) = 3 /\ hs[1].kind = "none" /\ hs[2].kind = "resp" /\ hs[3].kind = "resp"

\* the handlers subscribed under the recipient of the send just made
SendHandlers == RegisteredHandlers(Front(log), ret.message.recipient)

\* a point-to-point send to a name with handlers was just made
SentToRegistered ==
    ret.op = "send" /\ ret.message.recipient # "ALL" /\ Len(SendHandlers) > 0

\* C11 as stated: a point-to-point send to a name with several handlers calls
\* every one of them, in registration order, those registered after a
\* handler that returned a response included.
C11_AllHandlersInvoked ==
    SentToRegistered =>
        CalledWith(ret.message.id) = [i \in DOMAIN SendHandlers |-> SendHandlers[i].id]

\* C11, amended: a point-to-point send calls the handlers of the name in
\* registration order, each at most once, and stops at the first that
\* returns a response: no handler registered after that one is called, and
\* all are called only when none before the last returns a response.
C11_InvokedUpToFirstResponse ==
    SentToRegistered =>
        /\ \A i \in DOMAIN SendHandlers :
              CallCount(SendHandlers[i].id, ret.message.id)
                = IF \E j \in 1..(i - 1) : SendHandlers[j].kind = "resp" THEN 0 ELSE 1
        /\ \A k \in DOMAIN CalledWith(ret.message.id) :
              CalledWith(ret.message.id)[k] = SendHandlers[k].id

\* C11 happens: the first of two handlers returns a response, and the second
\* is not called
C11_Witness ==
    /\ SentToRegistered
    /\ Len(SendHandlers) = 2
    /\ SendHandlers[1].kind = "resp"
    /\ CalledWith(ret.message.id) = << SendHandlers[1].id >>

\* the queue the bus holds under a name
PendingOf(a) == Get(bus.pending_messages, a, <<>>)

\* the messages held in any queue of the bus
QueuedMessages ==
    UNION { { bus.pending_messages[a][i] : i \in DOMAIN bus.pending_messages[a] } :
            a \in DOMAIN bus.pending_messages }

\* every queue holds the undelivered point-to-point messages of its name
QueuesHoldUndelivered ==
    /\ DOMAIN bus.pending_messages \subseteq BusAgents
    /\ \A a \in BusAgents : PendingOf(a) = SentWhileUnregistered(log, a)
    /\ \A m \in QueuedMessages :
         /\ m.recipient # "ALL"
         /\ m.message_type # "RESPONSE"
         /\ CalledWith(m.id) = <<>>

\* a step calls handlers only with the message it sends
CallsOfOwnSend ==
    calls' # calls =>
        /\ ret'.op = "send"
        /\ Len(calls') > Len(calls)
        /\ SubSeq(calls', 1, Len(calls)) = calls
        /\ \A k \in (Len(calls) + 1)..Len(calls') : calls'[k].message = ret'.message.id

\* C39: at every state of the bus the queue of a name holds exactly the
\* point-to-point messages sent to it while no handler was subscribed under
\* it (also after an unsubscribe) and not drained since, in the order of the
\* sends; no broadcast, no response of a handler and no message a handler was
\* called with is in a queue, and no step other than a message's own send
\* calls a handler with it.
C39_QueueIsUndelivered == []QueuesHoldUndelivered /\ [][CallsOfOwnSend]_vars

\* a message to AgentA was handed to a handler that returned None, AgentA was
\* unsubscribed, and a later message to it is the one in its queue
C39_Witness ==
    \E i \in DOMAIN log, j \in DOMAIN log, k \in DOMAIN log :
        /\ i < j /\ j < k
        /\ log[i].op = "send" /\ log[i].message.recipient = "AgentA"
        /\ Len(CalledWith(log[i].message.id)) = 1
        /\ RegisteredHandlers(SubSeq(log, 1, i - 1), "AgentA")[1].kind = "none"
        /\ log[j].op = "unsubscribe" /\ log[j].agent = "AgentA"
        /\ log[k].op = "send"
        /\ PendingOf("AgentA") = << log[k].message >>

-----------------------------------------------------------------------------
(* A bus whose handlers also raise and send: callers subscribe handlers     *)
(* that reply, raise, or send a message of their own.                       *)

ActiveKinds == {"resp", "raise", "send"}

NextHist ==
    \/ \E a \in BusAgents, k \in ActiveKinds : BusSubscribe(a, k)
    \/ \E a \in BusAgents : BusUnsubscribe(a)
    \/ \E a \in BusAgents, b \in BusAgents \cup {"ALL"} : BusSend(a, b)
    \/ \E a \in BusAgents : BusGetPending(a)

SpecHist == InitBus /\ [][NextHist]_vars

\* the kind of the recording handler with a serial number
KindOf(handler_id) ==
    LET i == CHOOSE k \in DOMAIN log :
                 log[k].op = "subscribe" /\ log[k].handler.id = handler_id
    IN  log[i].handler.kind

\* the messages the callers passed to send, in the order of the calls
RECURSIVE CallerSends(_)
CallerSends(l) ==
    IF Len(l) = 0 THEN <<>>
    ELSE IF Last(l).op = "send" THEN Append(CallerSends(Front(l)), Last(l).message)
    ELSE CallerSends(Front(l))

\* the part of the history the callers sent
CallerPart(history) ==
    LET ofCaller(m) == m.action = "ping"
    IN  SelectSeq(history, ofCaller)

\* The history is complete and in call order. A message gets its id when it
\* is constructed, right before it is passed to send, and a response when
\* the handler returns it, so ids grow in the order of the calls:
\*   the ids of the history grow;
\*   the callers' messages in it are exactly those passed to send, in order;
\*   every send a handler made while handling a message is in it;
\*   every response in it comes after the request it answers.
HistoryComplete ==
    LET history == bus.message_history
    IN  /\ \A i, j \in DOMAIN history : i < j => history[i].id < history[j].id
        /\ CallerPart(history) = CallerSends(log)
        /\ \A c \in DOMAIN calls :
              (KindOf(calls[c].handler) = "send"
                 /\ \E k \in DOMAIN history :
                       history[k].id = calls[c].message /\ history[k].action = "ping")
              => \E k \in DOMAIN history :
                    /\ history[k].action = "nested"
                    /\ history[k].payload = [by |-> calls[c].handler,
                                             within |-> calls[c].message]
        /\ \A k \in DOMAIN history :
              history[k].action = "reply"
              => \E j \in 1..(k - 1) : history[j].id = history[k].payload.re

\* a step keeps the history it finds and appends to it at most
HistoryGrows ==
    /\ Len(bus.message_history') >= Len(bus.message_history)
    /\ SubSeq(bus.message_history', 1, Len(bus.message_history)) = bus.message_history

\* C12: the history is append-only and complete. Every message passed to
\* send is recorded, also when its recipient has no handler or a handler
\* raises; no operation removes or reorders entries; the messages stand in
\* the order of the send calls, those a handler makes included; a response
\* stands after the request it answers.
C12_HistoryAppendOnlyComplete == []HistoryComplete /\ [][HistoryGrows]_vars

\* C12 happens: a handler sent a message of its own to a name without
\* handlers, another handler of the same name then replied, and the history
\* holds request, nested message and response in this order
C12_Witness ==
    /\ ret.op = "send"
    /\ Len(bus.message_history) = 3
    /\ bus.message_history[1] = ret.message
    /\ bus.message_history[2].action = "nested"
    /\ "AgentA" \in DOMAIN bus.pending_messages \/ "AgentB" \in DOMAIN bus.pending_messages
    /\ bus.message_history[3].action = "reply"

\* the calls of recording handlers made in the send just done: those with
\* the message sent or with a message sent while it was handled
CallsOfSend == {c \in DOMAIN calls : calls[c].message >= ret.message.id}

\* C14: send does not raise for a missing recipient, calls no handler twice
\* with one message, and raises exactly when a handler it called raised: the
\* error ends the send at that call, no response is returned, and the
\* message sent is in the history.
C14_ErrorsPropagate ==
    ret.op = "send" =>
        /\ \A c, d \in CallsOfSend : calls[c] = calls[d] => c = d
        /\ ret.raised <=> \E c \in CallsOfSend : KindOf(calls[c].handler) = "raise"
        /\ \A c \in CallsOfSend :
              KindOf(calls[c].handler) = "raise" => (c = Len(calls) /\ IsNone(ret.response))
        /\ \E k \in DOMAIN bus.message_history : bus.message_history[k] = ret.message
        /\ (ret.message.recipient # "ALL" /\ Len(SendHandlers) = 0) =>
              (~ret.raised /\ CallsOfSend = {})

\* C14 happens: the first handler of the recipient returned None, the second
\* raised, and a third, which would reply, was not called
C14_Witness ==
    /\ ret.op = "send" /\ ret.raised /\ ret.message.recipient # "ALL"
    /\ Len(SendHandlers) = 3
    /\ SendHandlers[2].kind = "raise"
    /\ SendHandlers[3].kind = "resp"
    /\ CallCount(SendHandlers[1].id, ret.message.id) = 1
    /\ CallCount(SendHandlers[3].id, ret.message.id) = 0

-----------------------------------------------------------------------------
(* A context with checkpoints: a caller adds results, changes a result in   *)
(* place, records errors, and creates and restores checkpoints.             *)

CheckpointNames == {"pre-validate", "pre-quality"}

\* a context with the ICPResult objects in place of the references to them
Snapshot(ctx, h) == [ctx EXCEPT !.icp_results = [i \in DOMAIN @ |-> h[@[i]]]]

InitCkpt ==
    /\ bus = MessageBus
    /\ calls = <<>>
    /\ ids = 0
    /\ NewContext
    /\ NoAgents
    /\ pc = "ckpt"
    /\ ret = [op |-> "init"]
    /\ log = <<>>

\* context.add_icp_result(ICPResult(company_name=..., score=..., ...))
CkAdd(company_name, score) ==
    /\ pc = "ckpt" /\ Len(log) < MaxSteps
    /\ \E h \in { Append(heap, ICPResult(company_name, score, FitLevelOf(score), "",
                                         0, 0, 0, 0, 0, "")) } :
           /\ heap' = h
           /\ context' = [context EXCEPT !.icp_results = add_icp_result(@, h, Len(h))]
    /\ log' = Append(log, [op |-> "add"])
    /\ ret' = [op |-> "add"]
    /\ UNCHANGED <<bus, calls, checkpoints, validator, quality, enricher, orchestrator,
                   ids, pc>>

\* r = context.icp_results[i]; r.disputed = True; r.final_score = r.score:
\* a record of the live context is changed in place
CkMutate(i) ==
    /\ pc = "ckpt" /\ Len(log) < MaxSteps
    /\ ~heap[context.icp_results[i]].disputed
    /\ \E r \in {heap[context.icp_results[i]]} :
           heap' = [heap EXCEPT ![context.icp_results[i]] =
                       [r EXCEPT !.disputed = TRUE, !.final_score = Some(r.score)]]
    /\ log' = Append(log, [op |-> "mutate"])
    /\ ret' = [op |-> "mutate"]
    /\ UNCHANGED <<bus, calls, context, checkpoints, validator, quality, enricher,
                   orchestrator, ids, pc>>

\* context.add_error(error); context.set_status("in_progress")
CkError(error) ==
    /\ pc = "ckpt" /\ Len(log) < MaxSteps
    /\ context' = [context EXCEPT !.errors = Append(@, error), !.status = "in_progress"]
    /\ log' = Append(log, [op |-> "error"])
    /\ ret' = [op |-> "error"]
    /\ UNCHANGED <<bus, calls, checkpoints, heap, validator, quality, enricher,
                   orchestrator, ids, pc>>

\* context.create_checkpoint(name); the log keeps what the state was
CkCreate(name) ==
    /\ pc = "ckpt" /\ Len(log) < MaxSteps
    /\ \E c \in {create_checkpoint(checkpoints, context, heap, name)} :
           /\ checkpoints' = c.checkpoints
           /\ heap' = c.heap
    /\ log' = Append(log, [op |-> "create", name |-> name,
                           state |-> Snapshot(context, heap)])
    /\ ret' = [op |-> "create"]
    /\ UNCHANGED <<bus, calls, context, validator, quality, enricher, orchestrator,
                   ids, pc>>

\* context.restore_checkpoint(name)
CkRestore(name) ==
    /\ pc = "ckpt" /\ Len(log) < MaxSteps
    /\ \E r \in {restore_checkpoint(checkpoints, context, heap, name)} :
           /\ context' = r.context
           /\ heap' = r.heap
           /\ ret' = [op |-> "restore", name |-> name, result |-> r.result]
    /\ log' = Append(log, [op |-> "restore", name |-> name])
    /\ UNCHANGED <<bus, calls, checkpoints, validator, quality, enricher, orchestrator,
                   ids, pc>>

NextCkpt ==
    \/ \E n \in {"Acme", "Beta Corp"} : CkAdd(n, 80)
    \/ \E i \in DOMAIN context.icp_results : CkMutate(i)
    \/ CkError("EnricherAgent: failed")
    \/ \E n \in CheckpointNames : CkCreate(n)
    \/ \E n \in CheckpointNames : CkRestore(n)

SpecCkpt == InitCkpt /\ [][NextCkpt]_vars

\* the state the context had when the checkpoint of a name was last created
StateAtCheckpoint(n) ==
    LET S == {k \in DOMAIN log : log[k].op = "create" /\ log[k].name = n}
    IN  log[CHOOSE k \in S : \A j \in S : j <= k].state

\* C15: whatever is done to the live state after create_checkpoint(n), every
\* checkpoint keeps the state of the time it was created, and a
\* restore_checkpoint(n) leaves the context in that state, the first time
\* and every later time.
C15_CheckpointRestore ==
    /\ \A n \in DOMAIN checkpoints :
          Snapshot(checkpoints[n], heap) = StateAtCheckpoint(n)
    /\ (ret.op = "restore" /\ ret.result) =>
          Snapshot(context, heap) = StateAtCheckpoint(ret.name)

\* C15 happens: a checkpoint is restored a second time after the state it
\* restored the first time was changed in place
C15_Witness ==
    /\ ret.op = "restore" /\ ret.result
    /\ \E i, j, k \in DOMAIN log :
          /\ i < j /\ j < k /\ k < Len(log)
          /\ log[i].op = "create" /\ log[i].name = ret.name
          /\ log[j].op = "restore" /\ log[j].name = ret.name
          /\ log[k].op = "mutate"
    /\ Len(context.icp_results) > 0

\* restore_checkpoint of a name with no checkpoint returns False and changes
\* neither the live state nor a checkpoint
RestoreMissingStep ==
    (ret'.op = "restore" /\ ret'.name \notin DOMAIN checkpoints) =>
        /\ ~ret'.result
        /\ context' = context
        /\ heap' = heap
        /\ checkpoints' = checkpoints

\* create_checkpoint of a name that has a checkpoint puts the live state
\* under that name and changes neither the live state nor another checkpoint
CreateAgainStep ==
    (ret'.op = "create" /\ Last(log').name \in DOMAIN checkpoints) =>
        /\ context' = context
        /\ SubSeq(heap', 1, Len(heap)) = heap
        /\ DOMAIN checkpoints' = DOMAIN checkpoints
        /\ \A n \in DOMAIN checkpoints \ {Last(log').name} :
              /\ checkpoints'[n] = checkpoints[n]
              /\ Snapshot(checkpoints'[n], heap') = Snapshot(checkpoints[n], heap)
        /\ Snapshot(checkpoints'[Last(log').name], heap') = Snapshot(context, heap)

\* C40: restore_checkpoint with a name for which no checkpoint exists returns
\* False and leaves the live state and every stored checkpoint as they were;
\* create_checkpoint with a name that has a checkpoint replaces that
\* checkpoint alone and leaves the live state as it was.
C40_MissingAndReplaced == [][RestoreMissingStep /\ CreateAgainStep]_vars

\* a name with no checkpoint was restored, and later a checkpoint was
\* replaced by one of another state while a second name had a checkpoint
C40_Witness ==
    \E r \in DOMAIN log, i \in DOMAIN log, j \in DOMAIN log, k \in DOMAIN log :
        /\ r < i /\ i < j /\ j < k
        /\ log[r].op = "restore"
        /\ \A q \in 1..(r - 1) : log[q].op # "create"
        /\ log[i].op = "create" /\ log[j].op = "create" /\ log[k].op = "create"
        /\ log[j].name # log[i].name
        /\ log[k].name = log[i].name
        /\ log[k].state # log[i].state
        /\ DOMAIN checkpoints = CheckpointNames
        /\ Snapshot(checkpoints[log[j].name], heap) = log[j].state

-----------------------------------------------------------------------------
(* The details of a company: a caller sets the conference data, asks for    *)
(* the details of names, and changes the dicts it gets.                     *)

DetailDatasets ==
    { ConferenceData(<< Speaker("Ann", "VP Field Service", "Acme Industrial") >>,
                     << Speaker("Eve", "Director of Operations", "acme industrial") >>,
                     << [ Company("Acme Industrial", "Industrial Equipment", Some(1200),
                                  "speaker")
                          EXCEPT !.speakers = << "Ann" >> ] >>),
      ConferenceData(<<>>, << Speaker("Dee", "VP Service", "Delta Logistics") >>,
                     << Company("Unknown Co", "", None, "logo") >>) }

DetailNames == {"Acme Industrial", "ACME INDUSTRIAL", "Delta Logistics", "Nobody Inc"}

InitDet ==
    /\ bus = MessageBus
    /\ calls = <<>>
    /\ ids = 0
    /\ NewContext
    /\ NoAgents
    /\ pc = "set"
    /\ ret = [op |-> "init"]
    /\ log = <<>>

\* context.conference_data = data, or no data is set
DetSet(data) ==
    /\ pc = "set"
    /\ context' = [context EXCEPT !.conference_data = data]
    /\ pc' = "details"
    /\ ret' = [op |-> "set"]
    /\ UNCHANGED <<bus, calls, checkpoints, heap, validator, quality, enricher,
                   orchestrator, ids, log>>

\* details = context.get_company_details(company_name); ret keeps the
\* context the call found
DetCall(company_name) ==
    /\ pc = "details" /\ Len(log) < MaxOps
    /\ \E d \in {company_details_call(context, company_name)} :
           /\ context' = d.ctx
           /\ ret' = [ op |-> "details", company_name |-> company_name,
                       details |-> d.value, aliases |-> d.aliases,
                       returned |-> d.value, before |-> context ]
    /\ log' = Append(log, [op |-> "details"])
    /\ UNCHANGED <<bus, calls, checkpoints, heap, validator, quality, enricher,
                   orchestrator, ids, pc>>

\* details["industry"] = "Changed": the caller changes the dict it got
DetSetIndustry ==
    /\ pc = "details" /\ Len(log) < MaxOps
    /\ ret.op = "details"
    /\ ret' = [ret EXCEPT !.details = Put(@, "industry", "Changed")]
    /\ log' = Append(log, [op |-> "industry"])
    /\ UNCHANGED <<bus, calls, context, checkpoints, heap, validator, quality, enricher,
                   orchestrator, ids, pc>>

\* details["speakers"].append({"name": "Zoe", "title": "CEO"}): the caller
\* changes a list of the dict it got; were the list an object of the state,
\* the state would change with it
DetAppendSpeaker ==
    /\ pc = "details" /\ Len(log) < MaxOps
    /\ ret.op = "details" /\ "speakers" \in DOMAIN ret.details
    /\ ret' = [ret EXCEPT !.details.speakers = Append(@, [name |-> "Zoe", title |-> "CEO"])]
    /\ context' = IF "speakers" \in ret.aliases
                  THEN [context EXCEPT !.conference_data[1].speakers =
                           Append(@, Speaker("Zoe", "CEO", ret.company_name))]
                  ELSE context
    /\ log' = Append(log, [op |-> "speakers"])
    /\ UNCHANGED <<bus, calls, checkpoints, heap, validator, quality, enricher,
                   orchestrator, ids, pc>>

NextDet ==
    \/ \E data \in {None} \cup {Some(d) : d \in DetailDatasets} : DetSet(data)
    \/ \E n \in DetailNames : DetCall(n)
    \/ DetSetIndustry
    \/ DetAppendSpeaker

SpecDet == InitDet /\ [][NextDet]_vars

-----------------------------------------------------------------------------
(* The history queried: callers send messages, some built by send_message   *)
(* (conversation_id ""), some with a conversation id of their own, and ask  *)
(* for the history with filters.                                            *)

Conversations == {"", "c1"}

\* what a caller may pass for a filter over the values V
FilterValues(V) == {None} \cup {Some(v) : v \in V}

\* bus.send(AgentMessage(..., conversation_id=...)) with no handler subscribed
HistSend(sender, recipient, conversation_id) ==
    /\ pc = "bus" /\ Len(bus.message_history) < MaxSent
    /\ \E r \in { send([World EXCEPT !.ids = @ + 1], NoOracle,
                       AgentMessage(ids + 1, sender, recipient, "REQUEST", "ping",
                                    EmptyDict, conversation_id)) } :
           Becomes(r.w)
    /\ ret' = [op |-> "send"]
    /\ UNCHANGED <<context, checkpoints, orchestrator, pc, log>>

\* bus.get_history(sender=..., recipient=..., conversation_id=...)
HistGet(sender, recipient, conversation_id) ==
    /\ pc = "bus"
    /\ ret' = [ op |-> "get_history", sender |-> sender, recipient |-> recipient,
                conversation_id |-> conversation_id,
                messages |-> get_history(bus, sender, recipient, conversation_id) ]
    /\ UNCHANGED <<bus, calls, context, checkpoints, heap, validator, quality, enricher,
                   orchestrator, ids, pc, log>>

NextQuery ==
    \/ \E a \in BusAgents, b \in BusAgents, c \in Conversations : HistSend(a, b, c)
    \/ \E a \in FilterValues(BusAgents), b \in FilterValues(BusAgents),
          c \in FilterValues(Conversations) : HistGet(a, b, c)

SpecQuery == InitBus /\ [][NextQuery]_vars

\* C13: get_history returns exactly the recorded messages that have every
\* supplied filter value in the field it filters, in history order, and the
\* whole history when no filter is supplied.
C13_HistoryFilters ==
    ret.op = "get_history" =>
        LET matches(m) ==
                /\ IsNone(ret.sender) \/ m.sender = Val(ret.sender)
                /\ IsNone(ret.recipient) \/ m.recipient = Val(ret.recipient)
                /\ IsNone(ret.conversation_id)
                     \/ m.conversation_id = Val(ret.conversation_id)
        IN  ret.messages = SelectSeq(bus.message_history, matches)

-----------------------------------------------------------------------------
(* A context used on its own: a caller adds results to it.                  *)

AddNames == {"Acme", "ACME", "Beta Corp"}
AddScores == {10, 80}

InitAdd ==
    /\ bus = MessageBus
    /\ calls = <<>>
    /\ ids = 0
    /\ NewContext
    /\ NoAgents
    /\ pc = "add"
    /\ ret = [op |-> "init"]
    /\ log = <<>>

\* context.add_icp_result(ICPResult(company_name=..., score=..., ...))
CtxAdd(company_name, score) ==
    /\ pc = "add" /\ Len(log) < MaxAdds
    /\ LET result == ICPResult(company_name, score, FitLevelOf(score), "", 0, 0, 0, 0, 0, "")
           h == Append(heap, result)
       IN  /\ heap' = h
           /\ context' = [context EXCEPT !.icp_results = add_icp_result(@, h, Len(h))]
           /\ log' = Append(log, [op |-> "add", result |-> result])
    /\ ret' = [op |-> "add"]
    /\ UNCHANGED <<bus, calls, checkpoints, validator, quality, enricher, orchestrator,
                   ids, pc>>

NextAdd == \E n \in AddNames, sc \in AddScores : CtxAdd(n, sc)

SpecAdd == InitAdd /\ [][NextAdd]_vars

\* the names of the results added, each once, in the order they first came
RECURSIVE NamesAdded(_)
NamesAdded(l) ==
    IF Len(l) = 0 THEN <<>>
    ELSE LET before == NamesAdded(Front(l))
             n == Last(l).result.company_name
         IN  IF n \in Range(before) THEN before ELSE Append(before, n)

\* the last result added under a name
LastAdded(l, n) ==
    l[CHOOSE i \in DOMAIN l :
        /\ l[i].result.company_name = n
        /\ \A j \in DOMAIN l : l[j].result.company_name = n => j <= i].result

\* the records of the context, in list order
Records == [i \in DOMAIN context.icp_results |-> heap[context.icp_results[i]]]

\* C4: after any sequence of add_icp_result calls, icp_results holds one
\* record per name added (names compared as written), at the place where the
\* name first came, and the record is the last result added under the name.
C4_UpsertByName ==
    pc = "add" =>
        /\ [i \in DOMAIN Records |-> Records[i].company_name] = NamesAdded(log)
        /\ \A i \in DOMAIN Records : Records[i] = LastAdded(log, Records[i].company_name)

\* C4 happens: a name is added, another name after it, and the first again
\* with another score
C4_Witness ==
    /\ pc = "add" /\ Len(log) = 3
    /\ log[1].result.company_name = log[3].result.company_name
    /\ log[1].result.company_name # log[2].result.company_name
    /\ log[1].result.score # log[3].result.score

-----------------------------------------------------------------------------
(* What the oracle may do in the calls made for one company *)

\* every call fails
OracleFails == NoOracle

\* every call answers, and the answers agree with the schema
OracleSound ==
    [ enrich |-> [ raises |-> FALSE,
                   result |-> [ industry |-> "HVAC", size_estimate |-> "Enterprise (5000+)",
                                employee_count_estimate |-> Some(6000),
                                description |-> "Building services" ] ],
      validate |-> [ raises |-> FALSE,
                     result |-> [ score |-> 80, fit_level |-> "High",
                                  reasoning |-> "Strong fit" ] ],
      review |-> [ raises |-> FALSE,
                   result |-> [ should_dispute |-> TRUE, reason |-> "Score seems high",
                                suggested_score |-> 60 ] ],
      resolve |-> [ raises |-> FALSE,
                    result |-> [ final_score |-> 60, final_fit_level |-> "High",
                                 explanation |-> "Compromise" ] ] ]

\* the scoring answer names a fit level that is not the one of its score, and
\* the resolution a score outside 0..100
OracleLoose ==
    [ enrich |-> [raises |-> TRUE],
      validate |-> [ raises |-> FALSE,
                     result |-> [ score |-> 80, fit_level |-> "Medium",
                                  reasoning |-> "Fair fit" ] ],
      review |-> [raises |-> TRUE],
      resolve |-> [ raises |-> FALSE,
                    result |-> [ final_score |-> 120, explanation |-> "Raised" ] ] ]

\* the scoring answer has a score the schema rejects
OracleInvalid ==
    [ enrich |-> [raises |-> TRUE],
      validate |-> [ raises |-> FALSE,
                     result |-> [ score |-> 150, fit_level |-> "High",
                                  reasoning |-> "Off the scale" ] ],
      review |-> [raises |-> TRUE],
      resolve |-> [raises |-> TRUE] ]

\* the resolution has null for its final score
OracleNull ==
    [ enrich |-> [raises |-> TRUE],
      validate |-> [raises |-> TRUE],
      review |-> [raises |-> TRUE],
      resolve |-> [ raises |-> FALSE,
                    result |-> [ nulls |-> {"final_score"}, final_fit_level |-> "Medium",
                                 explanation |-> "Cannot tell" ] ] ]

\* the scoring answer has neither a score nor a fit level
OracleBare ==
    [ enrich |-> [raises |-> TRUE],
      validate |-> [raises |-> FALSE, result |-> [reasoning |-> "Hard to say"]],
      review |-> [raises |-> TRUE],
      resolve |-> [raises |-> TRUE] ]

\* the same oracle behaviour for every company of a phase
ForAll(names, orc) == [n \in names |-> orc]

-----------------------------------------------------------------------------
(* A pipeline run: main.run_pipeline calls process or run_demo of a newly   *)
(* made orchestrator.                                                       *)

PipeSpeakers ==
    << Speaker("Ann", "VP Field Service", "Acme Industrial"),
       Speaker("Bob", "Engineer", "Apex Manufacturing"),
       Speaker("Cy", "Engineer", "Zed Co") >>

PipeAttendees == << Speaker("Dee", "VP Service", "Delta Logistics") >>

PipeLogos == << "Unknown Co" >>

\* an attendee list read from OCR text or from a PDF: the affiliation is a
\* second spelling of a company the pages may name
ReadAttendees == << Speaker("Eve", "Director of Operations", "acme industrial") >>

\* the elements of s at the indices I, in the order of s
Pick(s, I) ==
    [k \in 1..Cardinality(I) |->
        s[CHOOSE i \in I : Cardinality({j \in I : j <= i}) = k]]

\* what the pages may give: at most MaxCompanies speakers, attendees and logos
ScrapeResults ==
    { [ speakers |-> Pick(PipeSpeakers, I), attendees |-> Pick(PipeAttendees, J),
        logos |-> Pick(PipeLogos, K) ] :
      <<I, J, K>> \in
        { t \in (SUBSET DOMAIN PipeSpeakers) \X (SUBSET DOMAIN PipeAttendees)
                  \X (SUBSET DOMAIN PipeLogos) :
            Cardinality(t[1]) + Cardinality(t[2]) + Cardinality(t[3]) <= MaxCompanies } }

\* the oracle behaviours of a phase of a run
PhaseOracles ==
    IF validator.gemini THEN {OracleFails, OracleSound, OracleNull} ELSE {NoOracle}

InitPipe == (\E gemini \in BOOLEAN : Constructed(gemini)) /\ pc = "start"

\* the stages of a run, the position of process before each, and its
\* position while the stage is in progress
Stages == <<"scraping", "enrichment", "validation", "quality_review">>
StageBefore ==
    [scraping |-> "start", enrichment |-> "enrich", validation |-> "validate",
     quality_review |-> "quality"]
StageRunning ==
    [scraping |-> "scraping", enrichment |-> "enriching", validation |-> "validating",
     quality_review |-> "reviewing"]

\* the run is one of run_demo, which marks no stage as in progress
Demo == Get(orchestrator.pipeline_status, "scraping", "") = "complete (demo)"

\* the position of process at which the agent of a stage is executed
AtStage(stage) ==
    IF Demo THEN pc = StageBefore[stage] ELSE pc = StageRunning[stage]

\* a step of process that begins a stage although another is in progress
PipeBeginEarly(stage) ==
    /\ pc \in {StageBefore[s] : s \in DOMAIN StageBefore}
             \cup {StageRunning[s] : s \in DOMAIN StageRunning}
    /\ ~Demo
    /\ stage \notin DOMAIN orchestrator.pipeline_status
    /\ orchestrator' = update_status(orchestrator, stage, "in_progress")
    /\ pc' = StageRunning[stage]
    /\ ret' = [op |-> "begin", stage |-> stage]
    /\ UNCHANGED <<bus, calls, context, checkpoints, heap, validator, quality, enricher,
                   ids, log>>

\* process: self._update_status(stage, "in_progress")
PipeBegin(stage) ==
    /\ pc = StageBefore[stage]
    /\ ~Demo
    /\ orchestrator' = update_status(orchestrator, stage, "in_progress")
    /\ pc' = StageRunning[stage]
    /\ ret' = [op |-> "begin", stage |-> stage]
    /\ UNCHANGED <<bus, calls, context, checkpoints, heap, validator, quality, enricher,
                   ids, log>>

\* process, phase 1: self.scraper.execute(context)
PipeScrape(failed, found) ==
    /\ pc = "scraping"
    /\ \E d \in {ScraperExecute(World, context, failed, found.speakers, found.attendees,
                               found.logos)} :
           /\ Becomes(d.w)
           /\ context' = d.ctx
    /\ orchestrator' = update_status(orchestrator, "scraping", "complete")
    /\ pc' = "scraped"
    /\ ret' = [op |-> "scrape", failed |-> failed]
    /\ log' = Append(log, [op |-> "scrape"])
    /\ UNCHANGED checkpoints

\* process, phases 1b and 1c and the gate after them
PipeMerge(ocr_attendees, pdf_attendees) ==
    /\ pc = "scraped"
    /\ context' = MergeAttendees(MergeAttendees(context, ocr_attendees, "ocr_attendee"),
                                 pdf_attendees, "pdf_attendee")
    /\ pc' = IF NoData(context') THEN "halted" ELSE "enrich"
    /\ ret' = [op |-> "merge"]
    /\ log' = Append(log, [op |-> "merge"])
    /\ UNCHANGED <<bus, calls, checkpoints, heap, validator, quality, enricher,
                   orchestrator, ids>>

\* run_demo up to its first phase: the first MaxCompanies demo speakers and
\* their companies become the conference data
PipeDemo ==
    /\ pc = "start"
    /\ context' = [context EXCEPT !.conference_data =
                      Some(ConferenceData(SubSeq(demo_speakers, 1, MaxCompanies), <<>>,
                                          SubSeq(demo_companies, 1, MaxCompanies)))]
    /\ orchestrator' = update_status(orchestrator, "scraping", "complete (demo)")
    /\ pc' = "enrich"
    /\ ret' = [op |-> "demo"]
    /\ log' = Append(log, [op |-> "demo"])
    /\ UNCHANGED <<bus, calls, checkpoints, heap, validator, quality, enricher, ids>>

\* self.enricher.execute(context)
PipeEnrich(orc) ==
    /\ AtStage("enrichment")
    /\ \E d \in {EnricherExecute(World, context, ForAll(CompanyNameSet(context), orc))} :
           /\ Becomes(d.w)
           /\ context' = d.ctx
    /\ orchestrator' = update_status(orchestrator, "enrichment", "complete")
    /\ pc' = "validate"
    /\ ret' = [op |-> "enrich"]
    /\ log' = Append(log, [op |-> "enrich"])
    /\ UNCHANGED checkpoints

\* self.validator.execute(context); companies is what get_companies returns
PipeValidate(orc, companies) ==
    /\ AtStage("validation")
    /\ \E d \in {ValidatorExecute(World, context, ForAll(CompanyNameSet(context), orc),
                                 companies)} :
           /\ Becomes(d.w)
           /\ context' = d.ctx
    /\ orchestrator' = update_status(orchestrator, "validation", "complete")
    /\ pc' = "quality"
    /\ ret' = [op |-> "validate"]
    /\ log' = Append(log, [op |-> "validate", companies |-> companies])
    /\ UNCHANGED checkpoints

\* self.quality.execute(context), and the end of the run
PipeQuality(orc) ==
    /\ AtStage("quality_review")
    /\ \E d \in {QualityExecute(World, context, ForAll(CompanyNameSet(context), orc))} :
           /\ Becomes(d.w)
           /\ context' = [d.ctx EXCEPT !.status = "complete"]
    /\ orchestrator' = update_status(orchestrator, "quality_review", "complete")
    /\ pc' = "done"
    /\ ret' = [op |-> "quality"]
    /\ log' = Append(log, [op |-> "quality"])
    /\ UNCHANGED checkpoints

NextPipe ==
    \/ \E i \in DOMAIN Stages : PipeBegin(Stages[i])
    \/ \E failed \in BOOLEAN, found \in ScrapeResults : PipeScrape(failed, found)
    \/ \E a \in {<<>>, ReadAttendees} : PipeMerge(a, <<>>)
    \/ PipeMerge(<<>>, ReadAttendees)
    \/ PipeDemo
    \/ \E orc \in PhaseOracles : PipeEnrich(orc)
    \/ \E orc \in PhaseOracles, companies \in get_companies(context) :
          PipeValidate(orc, companies)
    \/ \E orc \in PhaseOracles : PipeQuality(orc)

SpecPipe == InitPipe /\ [][NextPipe]_vars

-----------------------------------------------------------------------------
(* What a finished run says *)

\* the messages of the history with a given action
Sent(action) ==
    {k \in DOMAIN bus.message_history : bus.message_history[k].action = action}

\* the records of icp_results with a given name
ResultsOf(company_name) ==
    {i \in DOMAIN Records : Records[i].company_name = company_name}

\* C1: when the quality-review phase of a run is over, every organization
\* whose dispute was answered dispute_resolved with accepted = true has its
\* record in icp_results marked disputed, with a dispute reason, and with
\* the revised score.
C1_AcceptedDisputeInResults ==
    pc = "done" =>
        \A k \in Sent("dispute_resolved") :
            LET p == bus.message_history[k].payload
            IN  p.accepted =>
                  /\ ResultsOf(p.company_name) # {}
                  /\ \A i \in ResultsOf(p.company_name) :
                        /\ Records[i].disputed
                        /\ Truthy(Records[i].dispute_reason)
                        /\ Records[i].score = p.revised_score

\* the affiliations of a list of people, the empty ones left out
Affiliations(people) == {p.company : p \in {q \in Range(people) : Truthy(q.company)}}

\* C16: every list get_companies may return holds, ignoring case, the names
\* of the scrape list, the speakers' affiliations and the attendees'
\* affiliations, and no two of its names are equal ignoring case.
C16_NamesUniqueIgnoringCase ==
    ~IsNone(context.conference_data) =>
        \A l \in get_companies(context) :
            /\ {Lower(l[i]) : i \in DOMAIN l}
                 = {Lower(n) : n \in {c.name : c \in Range(Val(context.conference_data).companies)}
                                     \cup Affiliations(Val(context.conference_data).speakers)
                                     \cup Affiliations(Val(context.conference_data).attendees)}
            /\ \A i, j \in DOMAIN l : Lower(l[i]) = Lower(l[j]) => i = j

\* a speaker as get_company_details gives it, and the attendees likewise
ContactsOf(company_name) ==
    LET info == get_company_details(context, company_name)
    IN  Get(info, "speakers", <<>>) \o Get(info, "attendees", <<>>)

\* the dispute the reviewer sent for an organization in the quality-review
\* phase, 0 if it sent none: the last dispute_score message naming it
DisputeOf(company_name) ==
    LET S == {k \in Sent("dispute_score") :
                /\ bus.message_history[k].recipient = "ICPValidatorAgent"
                /\ bus.message_history[k].payload.company_name = company_name}
    IN  IF S = {} THEN 0 ELSE CHOOSE k \in S : \A j \in S : j <= k

\* the record the resolver holds for an organization
Resolved(company_name) == heap[validator.pending_validations[company_name]]

\* what C7 says of the record of icp_results at place i, which the reviewer
\* saw with the score it has there: a dispute with the suggested score
\* min(score + 15, 85) was sent, and the resolver's record has that score
\* and the fit level of that score
DisputedAndRaised(i) ==
    LET name == Records[i].company_name
        suggested == Min(Records[i].score + 15, 85)
        k == DisputeOf(name)
    IN  /\ k # 0
        /\ bus.message_history[k].payload.suggested_score = Some(suggested)
        /\ Resolved(name).score = suggested
        /\ Resolved(name).fit_level = FitLevelOf(suggested)

StatusOf(stage) == Get(orchestrator.pipeline_status, stage, "")

\* C26: the stages begin in the order scraping, enrichment, validation,
\* quality review: a stage has a status only when the stage before it is
\* complete, so at most one stage is in progress at any time; and the status
\* of the context is complete only when the quality review is complete, as it
\* is when process has returned from a run with organizations.
C26_PhasesInOrder ==
    /\ Cardinality({i \in DOMAIN Stages : StatusOf(Stages[i]) = "in_progress"}) <= 1
    /\ \A i \in 2..Len(Stages) :
          StatusOf(Stages[i]) # ""
              => StatusOf(Stages[i - 1]) \in {"complete", "complete (demo)"}
    /\ context.status = "complete" => StatusOf("quality_review") = "complete"
    /\ pc = "done"
          => /\ \A i \in 2..Len(Stages) : StatusOf(Stages[i]) = "complete"
             /\ context.status = "complete"

\* C26 happens: a run of process is in its validation stage, with scraping
\* and enrichment complete and the quality review not begun
C26_Witness ==
    /\ ~Demo
    /\ StatusOf("scraping") = "complete"
    /\ StatusOf("enrichment") = "complete"
    /\ StatusOf("validation") = "in_progress"
    /\ StatusOf("quality_review") = ""
    /\ context.status # "complete"

\* the organizations the state holds
Organizations ==
    IF IsNone(context.conference_data) THEN <<>>
    ELSE Val(context.conference_data).companies

\* C27: when the state holds no organization after the scrape stage and the
\* merge of the attendees read (also when the scraper failed), process returns
\* there: no later stage has a status, no agent after the scraper has run or
\* stored or sent anything, icp_results is empty and the status is not
\* complete.
C27_NoDataHalts ==
    (Len(Organizations) = 0 /\ pc \notin {"start", "scraping", "scraped"})
        => /\ pc = "halted"
           /\ DOMAIN orchestrator.pipeline_status = {"scraping"}
           /\ context.icp_results = <<>>
           /\ context.status # "complete"
           /\ heap = <<>>
           /\ validator.pending_validations = EmptyDict
           /\ quality.reviews_completed = EmptyDict
           /\ enricher.cache = EmptyDict
           /\ \A i \in DOMAIN bus.message_history :
                 bus.message_history[i].sender = "ScraperAgent"

\* C27 happens: the scraper failed, its error is in the error list, and
\* process has returned with no conference data
C27_Witness ==
    /\ pc = "halted"
    /\ IsNone(context.conference_data)
    /\ Len(context.errors) = 1
    /\ StatusOf("scraping") = "complete"

\* the i-th message of the history is a dispute sent to the validator (not
\* the reviewer's reply to a review request) that no dispute_resolved for
\* the same organization follows: the handler of the validator raised
UnansweredDispute(i) ==
    LET h == bus.message_history
    IN  /\ h[i].action = "dispute_score"
        /\ i > 1 /\ h[i - 1].action # "review_score"
        /\ ~\E j \in (i + 1)..Len(h) :
              /\ h[j].action = "dispute_resolved"
              /\ h[j].payload.company_name = h[i].payload.company_name

\* the error execute records for an agent
ErrorOf(agent_name) == agent_name \o ": error"

\* the number of errors in the list that are the one given
ErrorCount(e) == Cardinality({i \in DOMAIN context.errors : context.errors[i] = e})

ResultsKept ==
    /\ context'.icp_results = context.icp_results
    /\ \A i \in DOMAIN context.icp_results :
          heap'[context.icp_results[i]] = heap[context.icp_results[i]]

\* the error list is the one it was, or has one more error, of the agent
ErrorsOnlyOf(agent_name) ==
    context'.errors \in {context.errors, Append(context.errors, ErrorOf(agent_name))}

\* C34: in every phase the pipeline state is written by the agent of the
\* phase alone, and the handlers the bus calls during the phase leave it
\* alone. The enrichment phase leaves the results and their records as they
\* were; the validation phase leaves the conference data as it was, and the
\* records it adds are the objects the validator holds, undisputed; the
\* quality-review phase, with the validator's handler resolving disputes,
\* leaves the conference data, the results and their records as they were;
\* the errors added are those of the agent of the phase.
C34_PhaseAloneWrites ==
    [][ /\ (log' # log /\ ret'.op = "enrich") =>
              /\ ResultsKept
              /\ ErrorsOnlyOf("EnricherAgent")
        /\ (log' # log /\ ret'.op = "validate") =>
              /\ context'.conference_data = context.conference_data
              /\ ErrorsOnlyOf("ICPValidatorAgent")
              /\ \A i \in DOMAIN context'.icp_results :
                    LET r == heap'[context'.icp_results[i]]
                    IN  /\ validator'.pending_validations[r.company_name]
                              = context'.icp_results[i]
                        /\ ~r.disputed /\ IsNone(r.final_score)
        /\ (log' # log /\ ret'.op = "quality") =>
              /\ context'.conference_data = context.conference_data
              /\ ResultsKept
              /\ ErrorsOnlyOf("QualityAgent") ]_vars

\* C34 happens: in the quality-review phase the validator's handler accepted
\* a dispute and holds the revised record, and the record of icp_results is
\* the undisputed one
C34_Witness ==
    /\ pc = "done"
    /\ \E i \in DOMAIN Records :
          /\ ~Records[i].disputed
          /\ Records[i].company_name \in DOMAIN validator.pending_validations
          /\ heap[validator.pending_validations[Records[i].company_name]].disputed
          /\ \E k \in Sent("dispute_resolved") :
                /\ bus.message_history[k].payload.company_name = Records[i].company_name
                /\ bus.message_history[k].payload.accepted

\* the DISPUTE message at place i of the history is followed by a
\* dispute_resolved response for the same organization
ResolvedLater(i) ==
    LET h == bus.message_history
    IN  \E j \in (i + 1)..Len(h) :
            /\ h[j].action = "dispute_resolved"
            /\ h[j].message_type = "RESPONSE"
            /\ h[j].payload.company_name = h[i].payload.company_name

\* C35: in a complete run with no oracle, every DISPUTE message of the bus
\* history, those the reviewer returns for the validator's review_score
\* requests in the validation phase among them, is followed in the history by
\* a dispute_resolved response for the same organization.
C35_DisputesResolved ==
    (pc = "done" /\ context.status = "complete" /\ ~validator.gemini) =>
        \A i \in DOMAIN bus.message_history :
            bus.message_history[i].message_type = "DISPUTE" => ResolvedLater(i)

\* C35 happens: a run with no oracle is complete, and its history has a
\* dispute the reviewer returned for a review_score request and the
\* resolution of a later dispute for the same organization
C35_Witness ==
    /\ pc = "done" /\ context.status = "complete" /\ ~validator.gemini
    /\ \E i \in DOMAIN bus.message_history :
          /\ i > 1
          /\ bus.message_history[i].message_type = "DISPUTE"
          /\ bus.message_history[i - 1].action = "review_score"
          /\ ResolvedLater(i)

\* the list a is within the list b, in the order of a
RECURSIVE Within(_, _)
Within(a, b) ==
    IF Len(a) = 0 THEN TRUE
    ELSE IF Len(b) = 0 THEN FALSE
    ELSE IF Head(a) = Head(b) THEN Within(Tail(a), Tail(b))
    ELSE Within(a, Tail(b))

\* C37: at the end of a run the messages of the context, whose number
\* get_stats reports as message_count, hold every message of the bus history,
\* in the same order.
C37_ContextHasHistory ==
    pc \in {"done", "halted"} => Within(bus.message_history, context.messages)

\* no step of a run adds a message to the context
ContextHasNoMessage == context.messages = <<>>

\* the validation phase is just over, and the validator caught no error
ValidatedClean ==
    /\ ret.op = "validate"
    /\ ErrorCount(ErrorOf("ICPValidatorAgent")) = 0

\* the names of the records of icp_results, in list order
ResultNames == [i \in DOMAIN Records |-> Records[i].company_name]

\* icp_results has one record for each name get_companies returned, names
\* taken as written, and no other record
OneRecordPerName ==
    ValidatedClean =>
        LET companies == log[Len(log)].companies
        IN  /\ Range(ResultNames) = Range(companies)
            /\ Len(ResultNames) = Cardinality(Range(companies))
            /\ ResultNames = companies

\* C38: after a validation phase without error icp_results has exactly one
\* record for each name get_companies returned and none for another name,
\* and each organization was scored once: no two records are of names equal
\* ignoring case, and each record's name got one enrichment request, the
\* first step of scoring it.
C38_OneRecordEach ==
    /\ OneRecordPerName
    /\ ValidatedClean =>
          /\ \A i, j \in DOMAIN ResultNames :
                Lower(ResultNames[i]) = Lower(ResultNames[j]) => i = j
          /\ \A i \in DOMAIN ResultNames :
                Cardinality({k \in Sent("enrich_company") :
                               bus.message_history[k].payload.company_name
                                   = ResultNames[i]}) = 1

-----------------------------------------------------------------------------
(* The validator on its own: a caller sets the conference data of a new     *)
(* context, runs the validator, and then disputes and enrichment data reach *)
(* the validator over the bus.                                              *)

ValDatasets ==
    { ConferenceData(<< Speaker("Ann", "VP Field Service", "Acme Industrial") >>, <<>>,
                     << [ Company("Acme Industrial", "Industrial Equipment", Some(1200),
                                  "speaker")
                          EXCEPT !.speakers = << "Ann" >> ] >>),
      ConferenceData(<< Speaker("Cy", "Engineer", "Zed Co") >>, <<>>,
                     << [ Company("Zed Co", "Retail", None, "speaker")
                          EXCEPT !.speakers = << "Cy" >> ] >>),
      ConferenceData(<<>>, <<>>, << Company("Unknown Co", "", None, "logo") >>) }

SuggestedScores == {None, Some(0), Some(25), Some(40), Some(110)}

EnrichedIndustries == {"HVAC", "Retail"}

\* the oracle behaviours in the calls of one operation
ValOracles ==
    IF validator.gemini
    THEN {OracleFails, OracleSound, OracleLoose, OracleInvalid, OracleBare}
    ELSE {NoOracle}

InitVal == (\E gemini \in BOOLEAN : Constructed(gemini)) /\ pc = "load"

\* context.conference_data = data
ValLoad(data) ==
    /\ pc = "load"
    /\ context' = [context EXCEPT !.conference_data = Some(data)]
    /\ pc' = "validate"
    /\ ret' = [op |-> "load"]
    /\ UNCHANGED <<bus, calls, checkpoints, heap, validator, quality, enricher,
                   orchestrator, ids, log>>

\* validator.execute(context); ret keeps what the oracle did in the calls
ValValidate(orc, companies) ==
    /\ pc = "validate"
    /\ \E d \in {ValidatorExecute(World, context, ForAll(CompanyNameSet(context), orc),
                                  companies)} :
           /\ Becomes(d.w)
           /\ context' = d.ctx
    /\ pc' = "deliver"
    /\ ret' = [op |-> "validate", orc |-> orc]
    /\ UNCHANGED <<checkpoints, orchestrator, log>>

\* the messages delivered to the validator so far
Delivered == Cardinality({i \in DOMAIN log : log[i].op \in {"dispute", "enriched"}})

\* a dispute_score message is sent to the validator; ret keeps the record the
\* validator held before, what the oracle does when asked to resolve, and
\* whether the resolution had no oracle answer
ValDispute(company_name, suggested_score, orc) ==
    /\ pc = "deliver" /\ Delivered < MaxDeliveries
    /\ \E r \in {send_message(World, orc, "QualityAgent", "ICPValidatorAgent", "DISPUTE",
                              "dispute_score",
                              [ company_name |-> company_name, reason |-> "Review",
                                suggested_score |-> suggested_score ])} :
           /\ Becomes(r.w)
           /\ ret' = [ op |-> "dispute", company_name |-> company_name,
                       suggested_score |-> suggested_score,
                       fallback |-> ~validator.gemini \/ orc.resolve.raises,
                       resolution |-> orc.resolve,
                       before |-> heap[validator.pending_validations[company_name]],
                       raised |-> r.raised, response |-> r.response ]
    /\ log' = Append(log, [op |-> "dispute"])
    /\ UNCHANGED <<context, checkpoints, orchestrator, pc>>

\* a company_enriched message is sent to the validator
ValEnriched(company_name, industry) ==
    /\ pc = "deliver" /\ Delivered < MaxDeliveries
    /\ \E r \in {send_message(World, NoOracle, "EnricherAgent", "ICPValidatorAgent",
                              "RESPONSE", "company_enriched",
                              [ company_name |-> company_name,
                                data |-> [industry |-> industry] ])} :
           Becomes(r.w)
    /\ ret' = [op |-> "enriched", company_name |-> company_name]
    /\ log' = Append(log, [op |-> "enriched"])
    /\ UNCHANGED <<context, checkpoints, orchestrator, pc>>

NextVal ==
    \/ \E data \in ValDatasets : ValLoad(data)
    \/ \E orc \in ValOracles, companies \in get_companies(context) :
          ValValidate(orc, companies)
    \/ \E n \in DOMAIN validator.pending_validations, sg \in SuggestedScores,
          orc \in ValOracles : ValDispute(n, sg, orc)
    \/ \E n \in DOMAIN validator.pending_validations, ind \in EnrichedIndustries :
          ValEnriched(n, ind)

SpecVal == InitVal /\ [][NextVal]_vars

\* the records held: those of icp_results and the validator's pending ones
Held ==
    {heap[context.icp_results[i]] : i \in DOMAIN context.icp_results}
    \cup {heap[validator.pending_validations[n]] : n \in DOMAIN validator.pending_validations}

\* C2: every record held, after scoring, enrichment updates and dispute
\* resolutions in any order, has a score from 0 to 100.
C2_ScoreInRange == \A r \in Held : r.score >= 0 /\ r.score <= 100

\* the effective score of a record: final_score if it is set, else score
Effective(r) == IF IsNone(r.final_score) THEN r.score ELSE Val(r.final_score)

\* C3: every record held has the fit level High if its effective score is at
\* least the high threshold, Medium if it is at least the medium threshold
\* and below the high one, and Low otherwise.
C3_FitLevelOfEffectiveScore ==
    \A r \in Held :
        r.fit_level = ( IF Effective(r) >= threshold_high THEN "High"
                        ELSE IF Effective(r) >= threshold_medium THEN "Medium"
                        ELSE "Low" )

\* a dispute was just resolved with no oracle answer: none is configured, or
\* the call failed
FallbackResolved ==
    pc = "deliver" /\ ret.op = "dispute" /\ ret.fallback /\ ~ret.raised

\* C5: a dispute resolved with no oracle answer leaves a record whose score
\* is within 20 points of the score the record had before, whatever score
\* was suggested.
C5_FallbackWithin20 ==
    FallbackResolved =>
        Abs(Resolved(ret.company_name).score - ret.before.score) <= 20

\* C5 happens: with no oracle answer, a suggested score more than 20 points
\* away was turned down, and one within 20 points was taken before it
C5_Witness ==
    /\ FallbackResolved
    /\ ~IsNone(ret.suggested_score)
    /\ Abs(Val(ret.suggested_score) - ret.before.score) > 20
    /\ Resolved(ret.company_name).score = ret.before.score
    /\ ret.before.disputed

\* C6: a dispute resolved with no oracle answer and a suggested score s, of
\* a record with score o, leaves the score s if |s - o| <= 20 and o
\* otherwise, and the fit level of that score.
C6_FallbackTakesSuggested ==
    (FallbackResolved /\ ~IsNone(ret.suggested_score)) =>
        LET s == Val(ret.suggested_score)
            o == ret.before.score
            revised == Resolved(ret.company_name)
        IN  /\ revised.score = (IF Abs(s - o) <= 20 THEN s ELSE o)
            /\ revised.fit_level = FitLevelOf(revised.score)

\* an oracle answer without score or fit level, or with a score outside 0..100
Malformed(result) ==
    \/ "score" \notin DOMAIN result
    \/ "fit_level" \notin DOMAIN result
    \/ ~ScoreFieldValid(result.score)

\* the record of every organization is the rule-based result for its details
AllRuleBased ==
    /\ Len(Records) = Len(Only(get_companies(context)))
    /\ \A i \in DOMAIN Records :
          Records[i] = rule_based_validation(Records[i].company_name,
                           get_company_details(context, Records[i].company_name))

\* C21: when the oracle is not configured, raises, or answers without score
\* or fit level or with a score outside 0..100, the record of each
\* organization is the rule-based result for the same details, and the run
\* of the validator leaves no error behind.
C21_FallbackIsRuleBased ==
    ( /\ ret.op = "validate"
      /\ \/ ~validator.gemini
         \/ ret.orc.validate.raises
         \/ Malformed(ret.orc.validate.result) )
        => AllRuleBased /\ context.errors = <<>>

\* the same for the oracle answers the validator does reject: no oracle, an
\* oracle that raises, and a score outside 0..100
RejectedIsRuleBased ==
    ( /\ ret.op = "validate"
      /\ \/ ~validator.gemini
         \/ ret.orc.validate.raises
         \/ ~ScoreFieldValid(Get(ret.orc.validate.result, "score", 50)) )
        => AllRuleBased /\ context.errors = <<>>

\* C24: once a dispute for an organization has been resolved, a further
\* dispute_score message for the same organization changes neither the
\* score, the fit level nor the dispute reason of its record.
C24_ResolvedIsTerminal ==
    (ret.op = "dispute" /\ ret.before.disputed)
        => /\ Resolved(ret.company_name).score = ret.before.score
           /\ Resolved(ret.company_name).fit_level = ret.before.fit_level
           /\ Resolved(ret.company_name).dispute_reason = ret.before.dispute_reason

\* C25: when the validator has an oracle and the oracle answers the request to
\* resolve a dispute with a final score and a final fit level, the resolved
\* record has that score and that fit level.
C25_OracleVerdictVerbatim ==
    ( /\ ret.op = "dispute" /\ ~ret.fallback /\ ~ret.raised
      /\ {"final_score", "final_fit_level"} \subseteq DOMAIN ret.resolution.result )
        => /\ Resolved(ret.company_name).score = ret.resolution.result.final_score
           /\ Resolved(ret.company_name).fit_level
                 = ret.resolution.result.final_fit_level

\* the score of the oracle is taken as it is
OracleScoreVerbatim ==
    ( /\ ret.op = "dispute" /\ ~ret.fallback /\ ~ret.raised
      /\ "final_score" \in DOMAIN ret.resolution.result )
        => Resolved(ret.company_name).score = ret.resolution.result.final_score

\* C33: two requests issued through send_message without a conversation id
\* never get the same conversation id: no two REQUEST messages of the history
\* that concern different organizations share a conversation id.
C33_RequestsApart ==
    \A i, j \in DOMAIN bus.message_history :
        LET a == bus.message_history[i]
            b == bus.message_history[j]
        IN  ( /\ i < j
              /\ a.message_type = "REQUEST" /\ b.message_type = "REQUEST"
              /\ Get(a.payload, "company_name", "") # Get(b.payload, "company_name", "") )
                => a.conversation_id # b.conversation_id

\* every message sent through send_message has the empty conversation id
AllInOneConversation ==
    \A i \in DOMAIN bus.message_history : bus.message_history[i].conversation_id = ""

-----------------------------------------------------------------------------
(* The rule-based scoring on its own: _rule_based_validation is applied to  *)
(* one company_info dict, of the shapes get_company_details gives and with  *)
(* the employee_count an enrichment adds.                                   *)

MaxSpeakers == 2

ScoreTitles == {"VP Field Service", "Director", "Service Tech", "Engineer"}

ScoreIndustries == {"", "Industrial Equipment", "Oil", "Retail"}

ScoreSizes == {None, Some(0), Some(499), Some(500), Some(999), Some(1000), Some(1200)}

\* the lists of at most n {name, title} dicts with the titles given
PeopleUpTo(titles, n) ==
    UNION { [1..k -> {[name |-> "Ann", title |-> t] : t \in titles}] : k \in 0..n }

\* the dicts company_info can be: {"name": ...} of a context without data, the
\* dict of a name without company record, the dict of a company record, and
\* the second of these with an employee_count
ScoreInfos ==
    LET bases == { [name |-> "Acme Industrial", speakers |-> sp, attendees |-> at] :
                     sp \in PeopleUpTo(ScoreTitles, MaxSpeakers),
                     at \in PeopleUpTo({"VP Field Service", "Engineer"}, 1) }
    IN  {[name |-> "Acme Industrial"]}
        \cup bases
        \cup { b @@ [employee_count |-> Some(1200)] :
                 b \in {x \in bases : Len(x.speakers) + Len(x.attendees) <= 1} }
        \cup { b @@ [ industry |-> ind, size |-> sz, size_category |-> "",
                      description |-> "", source |-> "speaker" ] :
                 b \in bases, ind \in ScoreIndustries, sz \in ScoreSizes }

InitScore ==
    /\ bus = MessageBus
    /\ calls = <<>>
    /\ ids = 0
    /\ NewContext
    /\ NoAgents
    /\ pc = "rule"
    /\ \E company_info \in ScoreInfos :
          ret = [op |-> "info", company_name |-> "Acme Industrial",
                 company_info |-> company_info]
    /\ log = <<>>

\* result = self._rule_based_validation(company_name, company_info)
RuleBased ==
    /\ pc = "rule"
    /\ ret' = [ op |-> "rule", company_name |-> ret.company_name,
                company_info |-> ret.company_info,
                result |-> rule_based_validation(ret.company_name, ret.company_info) ]
    /\ pc' = "done"
    /\ UNCHANGED <<bus, calls, context, checkpoints, heap, validator, quality, enricher,
                   orchestrator, ids, log>>

NextScore == RuleBased

SpecScore == InitScore /\ [][NextScore]_vars

\* the known contacts of the organization: its speakers and its attendees
KnownContacts(company_info) ==
    Get(company_info, "speakers", <<>>) \o Get(company_info, "attendees", <<>>)

\* the total is the sum of the five components, each of them 0 or its full
\* weight, the size component also half its weight rounded down
TotalIsSum ==
    ret.op = "rule" =>
        LET r == ret.result
        IN  /\ r.score = r.industry_score + r.title_score + r.department_score
                         + r.size_score + r.speaker_bonus
            /\ r.industry_score \in {0, weight_industry_match}
            /\ r.title_score \in {0, weight_title_match}
            /\ r.department_score \in {0, weight_department_match}
            /\ r.size_score \in {0, weight_company_size \div 2, weight_company_size}
            /\ r.speaker_bonus \in {0, weight_speaker_bonus}
            /\ r.fit_level = FitLevelOf(r.score)

\* a target industry matches, the employee count is at least the preferred
\* size, and one of the people given has a title that holds a target title
\* and a target department
FullMatch(company_info, people) ==
    /\ IndustryMatch(company_info) # 0
    /\ ~IsNone(CompanySize(company_info))
    /\ Val(CompanySize(company_info)) >= preferred_company_size
    /\ \E i \in DOMAIN people :
          /\ TargetIn(target_titles_lower, people[i].title) # 0
          /\ TargetIn(target_departments_lower, people[i].title) # 0

\* C18: the rule-based total is the sum of the five component scores, each 0
\* or its full weight (the size component may be half its weight); and when a
\* target industry matches, the title of a known contact holds a target title
\* and a target department, and the employee count is at least the preferred
\* size, the score is 100 and the fit level High.
C18_TotalAndFullScore ==
    /\ TotalIsSum
    /\ ret.op = "rule" =>
          (FullMatch(ret.company_info, KnownContacts(ret.company_info))
              => ret.result.score = 100 /\ ret.result.fit_level = "High")

\* the same with speakers for the known contacts
FullScoreOfSpeakers ==
    ret.op = "rule" =>
        (FullMatch(ret.company_info, SpeakersOf(ret.company_info))
            => ret.result.score = 100 /\ ret.result.fit_level = "High")

\* C19: an organization with no industry (the empty string, or no industry
\* key), no known contacts and no employee count gets the rule-based score 0,
\* the fit level Low, every component score 0, and the reasoning that says
\* the data was insufficient.
C19_NoDataScoresZero ==
    ( /\ ret.op = "rule"
      /\ Get(ret.company_info, "industry", "") = ""
      /\ Len(KnownContacts(ret.company_info)) = 0
      /\ IsNone(CompanySize(ret.company_info)) )
        => /\ ret.result.score = 0
           /\ ret.result.fit_level = "Low"
           /\ ret.result.industry_score = 0
           /\ ret.result.title_score = 0
           /\ ret.result.department_score = 0
           /\ ret.result.size_score = 0
           /\ ret.result.speaker_bonus = 0
           /\ ret.result.reasoning = "Insufficient data for scoring"

\* the employee count the detail record carries: its size field, and for a
\* dict without that field its employee_count; None is an unknown count
EmployeeCount(company_info) ==
    IF "size" \in DOMAIN company_info THEN company_info.size
    ELSE Get(company_info, "employee_count", None)

\* C29: the size score is the full size weight exactly when the employee
\* count is known and at least the preferred size, the half of the weight
\* rounded down (7 of 15) exactly when it is known, at least the minimum size
\* and below the preferred size, and 0 in every other case, an unknown count
\* among them.
C29_SizeScore ==
    ret.op = "rule" =>
        LET count == EmployeeCount(ret.company_info)
            full  == ~IsNone(count) /\ Val(count) >= preferred_company_size
            half  == /\ ~IsNone(count)
                     /\ Val(count) >= min_company_size
                     /\ Val(count) < preferred_company_size
        IN  /\ weight_company_size = 15
            /\ ret.result.size_score = weight_company_size <=> full
            /\ ret.result.size_score = 7 <=> half
            /\ ret.result.size_score = 0 <=> ~full /\ ~half

\* C29 happens: a record with 999 employees was scored, and its size score is 7
C29_Witness ==
    /\ ret.op = "rule"
    /\ "size" \in DOMAIN ret.company_info
    /\ ret.company_info.size = Some(999)
    /\ ret.result.size_score = 7

\* one of the people given has a title that holds a target of the lowered list
AnyTitleHas(targets_lower, people) ==
    \E i \in DOMAIN people : TargetIn(targets_lower, people[i].title) # 0

\* C20: the title score, the department score and the speaker bonus count
\* every known contact, attendees as well as speakers: an organization with a
\* known contact gets the full speaker bonus, and the full title (department)
\* weight when the title of a known contact holds a target title (department).
C20_AttendeesCount ==
    ret.op = "rule" =>
        LET contacts == KnownContacts(ret.company_info)
        IN  /\ Len(contacts) > 0 => ret.result.speaker_bonus = weight_speaker_bonus
            /\ AnyTitleHas(target_titles_lower, contacts)
                  => ret.result.title_score = weight_title_match
            /\ AnyTitleHas(target_departments_lower, contacts)
                  => ret.result.department_score = weight_department_match

\* the same of the speakers alone
SpeakersCount ==
    ret.op = "rule" =>
        LET speakers == SpeakersOf(ret.company_info)
        IN  /\ ret.result.speaker_bonus
                  = (IF Len(speakers) > 0 THEN weight_speaker_bonus ELSE 0)
            /\ ret.result.title_score
                  = (IF AnyTitleHas(target_titles_lower, speakers)
                     THEN weight_title_match ELSE 0)
            /\ ret.result.department_score
                  = (IF AnyTitleHas(target_departments_lower, speakers)
                     THEN weight_department_match ELSE 0)

-----------------------------------------------------------------------------
(* The review on its own: _review_score_data is applied to one result dict  *)
(* and one company_info dict, by a reviewer with or without oracle.         *)

ReviewScores == {0, 40, 59, 60, 65, 70, 74, 75, 80, 95}

ReviewTitles == {"VP Sales", "Service Tech", "VP Field Service", "Engineer"}

ReviewReasonings == {"Industry: Unknown", "insufficient evidence", "Strong fit"}

\* what generate_json does when the reviewer asks: it raises, it advises a
\* dispute, or it advises none
ReviewAnswers ==
    { [raises |-> TRUE],
      [ raises |-> FALSE,
        result |-> [ should_dispute |-> TRUE, reason |-> "Score seems high",
                     suggested_score |-> 60 ] ],
      [raises |-> FALSE, result |-> [should_dispute |-> FALSE, reason |-> ""]] }

InitReview ==
    /\ bus = MessageBus
    /\ calls = <<>>
    /\ ids = 0
    /\ NewContext
    /\ validator = NewValidator(FALSE)
    /\ enricher = NewEnricher(FALSE)
    /\ orchestrator = NewOrchestrator
    /\ \E gemini \in BOOLEAN : quality = NewQuality(gemini)
    /\ pc = "review"
    /\ \E score \in ReviewScores, reasoning \in ReviewReasonings,
          sp \in PeopleUpTo(ReviewTitles, MaxSpeakers),
          at \in PeopleUpTo({"VP Field Service"}, 1) :
          ret = [ op |-> "input",
                  result_data |-> [ company_name |-> "Acme Industrial", score |-> score,
                                    fit_level |-> FitLevelOf(score),
                                    reasoning |-> reasoning ],
                  company_info |-> [ name |-> "Acme Industrial", speakers |-> sp,
                                     attendees |-> at ] ]
    /\ log = <<>>

\* the four rules alone: the review of a reviewer without oracle
rules_review(result_data, company_info) ==
    review_score_data(FALSE, [raises |-> TRUE], result_data, company_info)

\* review = self._review_score_data(result_data, company_info); consulted
\* says whether self._gemini_review was called on the way
ReviewData(oracle) ==
    /\ pc = "review"
    /\ oracle.raises \/ quality.gemini
    /\ ret' = [ op |-> "review", result_data |-> ret.result_data,
                company_info |-> ret.company_info, oracle |-> oracle,
                consulted |-> /\ ~rules_review(ret.result_data, ret.company_info).should_dispute
                              /\ quality.gemini /\ ret.result_data.score >= 50,
                review |-> review_score_data(quality.gemini, oracle, ret.result_data,
                                             ret.company_info) ]
    /\ pc' = "done"
    /\ UNCHANGED <<bus, calls, context, checkpoints, heap, validator, quality, enricher,
                   orchestrator, ids, log>>

\* the dispute of the review reaches a validator without oracle that holds
\* the record reviewed: revised = self._handle_dispute(original, reason,
\* suggested_score), and accepted as handle_message reports it
ReviewResolve ==
    /\ pc = "done" /\ ret.op = "review" /\ ret.review.should_dispute
    /\ \E original \in {ICPResult(ret.result_data.company_name, ret.result_data.score,
                                  ret.result_data.fit_level, ret.result_data.reasoning,
                                  0, 0, 0, 0, 0, "ICPValidatorAgent")} :
       \E r \in {handle_dispute(validator.gemini, [raises |-> TRUE], original,
                                ret.review.reason, ret.review.suggested_score)} :
          ret' = [ op |-> "resolve", result_data |-> ret.result_data,
                   company_info |-> ret.company_info, review |-> ret.review,
                   consulted |-> ret.consulted, raised |-> r.raised,
                   revised |-> IF r.raised THEN None ELSE Some(r.revised),
                   accepted |-> ~r.raised /\ r.revised.score # original.score ]
    /\ pc' = "resolved"
    /\ UNCHANGED <<bus, calls, context, checkpoints, heap, validator, quality, enricher,
                   orchestrator, ids, log>>

NextReview ==
    \/ \E oracle \in ReviewAnswers : ReviewData(oracle)
    \/ ReviewResolve

SpecReview == InitReview /\ [][NextReview]_vars

\* the verdict of the first of the four rules that holds of a score, the
\* people counted and whether the reasoning counts as without evidence; no
\* dispute if none holds
FirstRule(score, people, unknown) ==
    IF Len(people) > 0 /\ score < 60
    THEN [should_dispute |-> TRUE, suggested_score |-> Some(Min(score + 15, 85))]
    ELSE IF HasSeniorSpeaker(people) /\ score < 70
    THEN [should_dispute |-> TRUE, suggested_score |-> Some(Min(score + 20, 90))]
    ELSE IF HasFsTitle(people) /\ score < 75
    THEN [should_dispute |-> TRUE, suggested_score |-> Some(Min(score + 15, 92))]
    ELSE IF score >= 80 /\ Len(people) = 0 /\ unknown
    THEN [should_dispute |-> TRUE, suggested_score |-> Some(Max(score - 15, 50))]
    ELSE [should_dispute |-> FALSE, suggested_score |-> None]

\* the review is the verdict given, unless no rule holds and there is an
\* oracle to ask
VerdictIs(verdict) ==
    (verdict.should_dispute \/ ~quality.gemini)
        => /\ ret.review.should_dispute = verdict.should_dispute
           /\ ret.review.suggested_score = verdict.suggested_score

\* C22: the verdict is that of the first rule, in the order 1 to 4, whose
\* condition holds, with the contacts of the organization (speakers and
\* attendees) counted and a reasoning that speaks of unknown or insufficient
\* evidence; with no oracle and no rule firing the score is confirmed.
C22_FirstRuleOfContacts ==
    ret.op = "review" =>
        VerdictIs(FirstRule(ret.result_data.score, KnownContacts(ret.company_info),
                            \/ Contains("unknown", Lower(ret.result_data.reasoning))
                            \/ Contains("insufficient", Lower(ret.result_data.reasoning))))

\* C22, amended: the verdict is that of the first rule, in the order 1 to 4,
\* whose condition holds, with the speakers of the organization counted and a
\* reasoning that holds the word "Unknown"; with no oracle and no rule firing
\* the score is confirmed.
C22_FirstRuleOfSpeakers ==
    ret.op = "review" =>
        VerdictIs(FirstRule(ret.result_data.score, SpeakersOf(ret.company_info),
                            Contains("Unknown", ret.result_data.reasoning)))

\* C22 happens: a score of 40 with a senior speaker was disputed with 55, the
\* suggestion of rule 1 and not the 60 of rule 2
C22_Witness ==
    /\ ret.op = "review"
    /\ ret.result_data.score = 40
    /\ HasSeniorSpeaker(SpeakersOf(ret.company_info))
    /\ ret.review.should_dispute
    /\ ret.review.suggested_score = Some(55)


\* the verdict of the four rules on the speakers, as C22 has it
RulesVerdict ==
    FirstRule(ret.result_data.score, SpeakersOf(ret.company_info),
              Contains("Unknown", ret.result_data.reasoning))

\* C23: the oracle is asked only when none of the four rules fired, the score
\* is at least 50 and the reviewer has an oracle; a dispute raised by a rule
\* is the review whatever the oracle would say; and when no rule fired and
\* the oracle was not asked, raised an error or advised no dispute, the score
\* is confirmed.
C23_OracleAfterRules ==
    ret.op = "review" =>
        /\ ret.consulted => /\ ~RulesVerdict.should_dispute
                            /\ ret.result_data.score >= 50
                            /\ quality.gemini
        /\ RulesVerdict.should_dispute
              => /\ ret.review.should_dispute
                 /\ ret.review.suggested_score = RulesVerdict.suggested_score
        /\ ( /\ ~RulesVerdict.should_dispute
             /\ \/ ~ret.consulted
                \/ ret.oracle.raises
                \/ ~ret.oracle.result.should_dispute )
              => /\ ~ret.review.should_dispute
                 /\ ret.review.suggested_score = None
        /\ ( /\ ret.consulted /\ ~ret.oracle.raises
             /\ ret.oracle.result.should_dispute )
              => /\ ret.review.should_dispute
                 /\ ret.review.suggested_score = Some(ret.oracle.result.suggested_score)

\* C23 happens: a reviewer with an oracle that advises 60 reviewed a score of
\* 65 with a senior speaker, and the review is the dispute of rule 2 with 85
C23_Witness ==
    /\ ret.op = "review"
    /\ quality.gemini
    /\ ret.result_data.score = 65
    /\ ~ret.oracle.raises /\ ret.oracle.result.should_dispute
    /\ ret.oracle.result.suggested_score = 60
    /\ ~ret.consulted
    /\ ret.review.suggested_score = Some(85)

-----------------------------------------------------------------------------
(* The rule-based scoring among the validator's operations: a caller scores *)
(* detail records with _rule_based_validation before the data is loaded,    *)
(* before and after the validator's phase, and between the deliveries.      *)

\* the detail records scored: the one of a company record with a speaker, and
\* the one of a context without data
PureInfos ==
    { [ name |-> "Acme Industrial",
        speakers |-> << [name |-> "Ann", title |-> "VP Field Service"] >>,
        attendees |-> <<>>, industry |-> "Industrial Equipment", size |-> Some(1200),
        size_category |-> "", description |-> "", source |-> "speaker" ],
      [ name |-> "Zed Co" ] }

\* the direct calls of the scoring so far
Scored == {i \in DOMAIN log : log[i].op = "rule"}

\* result = validator._rule_based_validation(company_info["name"], company_info);
\* the log keeps the call, its result, and what the validator, the bus and the
\* context held when it was made
ScoreCall(company_info) ==
    /\ pc \in {"load", "validate", "deliver"}
    /\ Cardinality(Scored) < MaxScored
    /\ \E result \in {rule_based_validation(company_info.name, company_info)} :
          /\ ret' = [ op |-> "rule", company_name |-> company_info.name,
                      company_info |-> company_info, result |-> result ]
          /\ log' = Append(log, [ op |-> "rule", company_info |-> company_info,
                                  result |-> result,
                                  pending |-> DOMAIN validator.pending_validations,
                                  sent |-> Len(bus.message_history),
                                  results |-> Len(context.icp_results) ])
    /\ UNCHANGED <<bus, calls, context, checkpoints, heap, validator, quality, enricher,
                   orchestrator, ids, pc>>

\* the oracle behaviours in the calls of one operation
PureOracles == IF validator.gemini THEN {OracleFails, OracleSound} ELSE {NoOracle}

NextPure ==
    \/ \E data \in ValDatasets : ValLoad(data)
    \/ \E orc \in PureOracles, companies \in get_companies(context) :
          ValValidate(orc, companies)
    \/ \E n \in DOMAIN validator.pending_validations, orc \in PureOracles :
          ValDispute(n, Some(40), orc)
    \/ \E n \in DOMAIN validator.pending_validations : ValEnriched(n, "HVAC")
    \/ \E company_info \in PureInfos : ScoreCall(company_info)

SpecPure == InitVal /\ [][NextPure]_vars

\* two calls of the scoring with the same detail record returned equal results
SameResults ==
    \A i, j \in Scored :
        log[i].company_info = log[j].company_info => log[i].result = log[j].result

\* a step that is a call of the scoring
ScoreStep == Len(log') = Len(log) + 1 /\ log'[Len(log')].op = "rule"

C36_RuleDisputesAccepted ==
    ( /\ ret.op \in {"review", "resolve"}
      /\ ret.review.should_dispute /\ ~ret.consulted
      /\ ret.result_data.score \in 0..100 ) =>
        LET score == ret.result_data.score
            suggested == ret.review.suggested_score
        IN  /\ ~IsNone(suggested)
            /\ Val(suggested) \in 1..100
            /\ Abs(Val(suggested) - score) <= 20
            /\ ret.op = "resolve" =>
                  /\ ~ret.raised
                  /\ ret.accepted
                  /\ Val(ret.revised).score = Val(suggested)
                  /\ Val(ret.revised).final_score = suggested

\* C36 happens: rule 2 disputed a score of 65 with 85, 20 points above, and
\* the validator without oracle accepted it
C36_Witness ==
    /\ ret.op = "resolve" /\ ~ret.consulted
    /\ ret.result_data.score = 65
    /\ ret.review.suggested_score = Some(85)
    /\ ret.accepted

\* a dispute the oracle advised is not accepted when its suggestion is more
\* than 20 points away
OracleDisputeRejected ==
    (ret.op = "resolve" /\ ret.consulted
        /\ Abs(Val(ret.review.suggested_score) - ret.result_data.score) > 20)
            => ~ret.accepted

-----------------------------------------------------------------------------
(* agents/orchestrator_agent.py: export_to_csv and _display_results_summary, *)
(* on a context a caller added results to.                                   *)

\* icp.final_score or icp.score: final_score when it is neither None nor 0
ShownScore(icp) ==
    IF ~IsNone(icp.final_score) /\ Val(icp.final_score) # 0 THEN Val(icp.final_score)
    ELSE icp.score

\* reasoning.split(";")[0]
RECURSIVE FirstPart(_)
FirstPart(s) ==
    IF Len(s) = 0 \/ SubSeq(s, 1, 1) = ";" THEN ""
    ELSE SubSeq(s, 1, 1) \o FirstPart(SubSeq(s, 2, Len(s)))

\* icp_by_company.get(name): the last record of the list with the name
IcpOf(records, name) ==
    LET hits == {i \in DOMAIN records : records[i].company_name = name}
    IN  IF hits = {} THEN None
        ELSE Some(records[CHOOSE i \in hits : \A j \in hits : j <= i])

\* the three last columns of a row: score, fit level, reasoning
IcpColumns(icp) ==
    IF IsNone(icp) THEN [score |-> None, fit |-> "", reasoning |-> ""]
    ELSE [ score |-> Some(ShownScore(Val(icp))), fit |-> Val(icp).fit_level,
           reasoning |-> Val(icp).reasoning ]

\* OrchestratorAgent.export_to_csv: the rows written after the header
export_to_csv(ctx, records) ==
    IF IsNone(ctx.conference_data) THEN <<>>
    ELSE
      LET data == Val(ctx.conference_data)
          written == {data.speakers[i].company : i \in DOMAIN data.speakers}
                     \cup {data.attendees[i].company : i \in DOMAIN data.attendees}
          speaker_row(p) ==
              LET icp == IcpOf(records, p.company)
              IN  [ name |-> p.name, title |-> p.title, company |-> p.company,
                    type |-> "Speaker",
                    industry |-> IF IsNone(icp) THEN ""
                                 ELSE FirstPart(Val(icp).reasoning),
                    icp |-> IcpColumns(icp) ]
          attendee_row(p) ==
              [ name |-> p.name, title |-> p.title, company |-> p.company,
                type |-> "Attendee", industry |-> "",
                icp |-> IcpColumns(IcpOf(records, p.company)) ]
          company_row(c) ==
              [ name |-> "", title |-> "", company |-> c.name, type |-> "Logo/Sponsor",
                industry |-> c.industry, icp |-> IcpColumns(IcpOf(records, c.name)) ]
          logos == SelectSeq(data.companies, LAMBDA c : c.name \notin written)
      IN  [i \in DOMAIN data.speakers |-> speaker_row(data.speakers[i])]
          \o [i \in DOMAIN data.attendees |-> attendee_row(data.attendees[i])]
          \o [i \in DOMAIN logos |-> company_row(logos[i])]

\* list.sort(key=lambda x: x.final_score or x.score, reverse=True): a stable
\* sort, records of equal keys keep their order
RECURSIVE SortByShown(_)
SortByShown(records) ==
    IF Len(records) = 0 THEN <<>>
    ELSE LET before == SortByShown(Front(records))
             r == Last(records)
             k == Cardinality({i \in DOMAIN before :
                                 ShownScore(before[i]) >= ShownScore(r)})
         IN  SubSeq(before, 1, k) \o <<r>> \o SubSeq(before, k + 1, Len(before))

\* OrchestratorAgent._display_results_summary: the names of the High and
\* Medium rows, the count of the Low row, and the leads printed with scores;
\* nothing is printed for a context without results
display_results_summary(records) ==
    LET high_fit == SortByShown(SelectSeq(records, LAMBDA r : r.fit_level = "High"))
        medium_fit == SortByShown(SelectSeq(records, LAMBDA r : r.fit_level = "Medium"))
        low_fit == SelectSeq(records, LAMBDA r : r.fit_level = "Low")
        names(l) == [i \in 1..Min(3, Len(l)) |-> l[i].company_name]
    IN  [ printed |-> Len(records) > 0,
          high |-> [count |-> Len(high_fit), top |-> names(high_fit)],
          medium |-> [count |-> Len(medium_fit), top |-> names(medium_fit)],
          low |-> Len(low_fit),
          leads |-> [ i \in 1..Min(5, Len(high_fit)) |->
                        [ company_name |-> high_fit[i].company_name,
                          score |-> ShownScore(high_fit[i]) ] ] ]

ExportNames == {"Acme Industrial", "Logo Co"}
ExportScores == {30, 80}
ExportFinals == {None, Some(0), Some(60)}

ExportData ==
    ConferenceData(<< Speaker("Ann", "VP Field Service", "Acme Industrial") >>,
                   << Speaker("Bob", "Engineer", "Beta Corp") >>,
                   << Company("Acme Industrial", "Industrial Equipment", Some(1200),
                              "speaker"),
                      Company("Logo Co", "Retail", None, "logo") >>)

InitExport ==
    /\ bus = MessageBus
    /\ calls = <<>>
    /\ ids = 0
    /\ context = [AgentContext EXCEPT !.conference_data = Some(ExportData)]
    /\ checkpoints = EmptyDict
    /\ heap = <<>>
    /\ NoAgents
    /\ pc = "add"
    /\ ret = [op |-> "init"]
    /\ log = <<>>

\* context.add_icp_result(ICPResult(company_name=..., score=..., final_score=..., ...))
ExportAdd(company_name, score, final_score) ==
    /\ Len(log) < MaxAdds
    /\ \E result \in {[ ICPResult(company_name, score, FitLevelOf(score),
                                  "Industry match: HVAC; Has 1 speaker(s) at conference",
                                  30, 0, 0, 0, 10, "ICPValidatorAgent")
                        EXCEPT !.final_score = final_score ]} :
       \E h \in {Append(heap, result)} :
          /\ heap' = h
          /\ context' = [context EXCEPT !.icp_results = add_icp_result(@, h, Len(h))]
          /\ log' = Append(log, [op |-> "add", result |-> result])
    /\ ret' = [op |-> "add"]
    /\ UNCHANGED <<bus, calls, checkpoints, validator, quality, enricher, orchestrator,
                   ids, pc>>

\* orchestrator.export_to_csv(context, output_path)
Export ==
    /\ ret' = [op |-> "export", rows |-> export_to_csv(context, Records)]
    /\ UNCHANGED <<bus, calls, context, checkpoints, heap, validator, quality, enricher,
                   orchestrator, ids, pc, log>>

\* orchestrator._display_results_summary(context)
Summary ==
    /\ ret' = [op |-> "summary", table |-> display_results_summary(Records)]
    /\ UNCHANGED <<bus, calls, context, checkpoints, heap, validator, quality, enricher,
                   orchestrator, ids, pc, log>>

NextExport ==
    \/ \E n \in ExportNames, sc \in ExportScores, f \in ExportFinals : ExportAdd(n, sc, f)
    \/ Export
    \/ Summary

SpecExport == InitExport /\ [][NextExport]_vars

\* the score a row or a lead of the name must show: that of the record of the
\* name, final_score if it is set and score otherwise
EffectiveOf(name) == Effective(Val(IcpOf(Records, name)))

\* C31: the score in every exported row and in every lead of the summary is
\* the final score of the record when it is set and its score otherwise (and
\* every dispute resolution that sets the final score leaves it equal to the
\* score).
C31_FinalScoreShown ==
    /\ ret.op = "export" =>
          \A i \in DOMAIN ret.rows :
              ~IsNone(ret.rows[i].icp.score)
                  => Val(ret.rows[i].icp.score) = EffectiveOf(ret.rows[i].company)
    /\ ret.op = "summary" =>
          \A i \in DOMAIN ret.table.leads :
              ret.table.leads[i].score = EffectiveOf(ret.table.leads[i].company_name)

\* the same for the records whose final score is not 0
NonZeroFinalShown ==
    ret.op = "export" =>
        \A i \in DOMAIN ret.rows :
            LET icp == IcpOf(Records, ret.rows[i].company)
            IN  (~IsNone(icp) /\ Val(icp).final_score # Some(0))
                    => ret.rows[i].icp.score = Some(Effective(Val(icp)))

\* a resolution that sets the final score leaves the score equal to it
ResolutionSetsBoth ==
    (ret.op = "dispute" /\ ~ret.raised) =>
        LET r == heap[validator.pending_validations[ret.company_name]]
        IN  ~IsNone(r.final_score) => r.score = Val(r.final_score)

-----------------------------------------------------------------------------
(* Requests with conversation ids: after the validator's phase a caller     *)
(* sends requests of its own over the bus, each in a conversation it names. *)

ConvIds == {"", "c1", "c2"}

\* the requests sent: recipient, type, action and payload
ConvRequests ==
    { [ recipient |-> "ICPValidatorAgent", message_type |-> "REQUEST",
        action |-> "validate_company",
        payload |-> [company_name |-> "Zed Co", company_info |-> [name |-> "Zed Co"]] ],
      [ recipient |-> "EnricherAgent", message_type |-> "REQUEST",
        action |-> "enrich_company",
        payload |-> [company_name |-> "Zed Co", known_info |-> [name |-> "Zed Co"]] ],
      [ recipient |-> "EnricherAgent", message_type |-> "REQUEST",
        action |-> "get_industry", payload |-> [company_name |-> "Zed Medical"] ],
      [ recipient |-> "ScraperAgent", message_type |-> "REQUEST",
        action |-> "scrape_page", payload |-> [url |-> "https://conf.example"] ],
      [ recipient |-> "OrchestratorAgent", message_type |-> "STATUS",
        action |-> "progress", payload |-> EmptyDict ] }
    \cup { [ recipient |-> "ICPValidatorAgent", message_type |-> "DISPUTE",
             action |-> "dispute_score",
             payload |-> [ company_name |-> n, reason |-> "Review",
                           suggested_score |-> Some(40) ] ] :
           n \in DOMAIN validator.pending_validations }
    \cup { [ recipient |-> "QualityAgent", message_type |-> "REQUEST",
             action |-> "review_score",
             payload |-> [ company_name |-> n,
                           result |-> heap[validator.pending_validations[n]],
                           company_info |-> get_company_details(context, n) ] ] :
           n \in DOMAIN validator.pending_validations }

\* the requests sent so far
ConvSent == Cardinality({i \in DOMAIN log : log[i].op = "send"})

\* message_bus.send(AgentMessage(sender="Caller", ..., conversation_id=cid));
\* ret keeps the request and what send returned
ConvSend(req, cid, orc) ==
    /\ pc = "deliver" /\ ConvSent < MaxDeliveries
    /\ \E m \in {AgentMessage(ids + 1, "Caller", req.recipient, req.message_type,
                              req.action, req.payload, cid)} :
       \E r \in {send([World EXCEPT !.ids = @ + 1], orc, m)} :
          /\ Becomes(r.w)
          /\ ret' = [ op |-> "send", request |-> m, response |-> r.response,
                      raised |-> r.raised, sent |-> Len(bus.message_history) ]
    /\ log' = Append(log, [op |-> "send"])
    /\ UNCHANGED <<context, checkpoints, orchestrator, pc>>

NextConv ==
    \/ \E data \in ValDatasets : ValLoad(data)
    \/ \E orc \in PureOracles, companies \in get_companies(context) :
          ValValidate(orc, companies)
    \/ \E req \in ConvRequests, cid \in ConvIds, orc \in PureOracles :
          ConvSend(req, cid, orc)

SpecConv == InitVal /\ [][NextConv]_vars

\* C32: every response, dispute or confirm message that an agent's handler
\* returns carries the conversation id of the message it answers: the request
\* and the response recorded for it in the bus history, the one after the
\* other, share one conversation id.
C32_ReplyInConversation ==
    (ret.op = "send" /\ ~IsNone(ret.response)) =>
        LET h == bus.message_history
            response == Val(ret.response)
        IN  /\ response.conversation_id = ret.request.conversation_id
            /\ response.recipient = ret.request.sender
            /\ Len(h) = ret.sent + 2
            /\ h[Len(h) - 1] = ret.request
            /\ h[Len(h)] = response

\* C32 happens: a review_score request of the conversation c1 was answered
\* with a dispute, and a dispute_score message of the conversation c2 with a
\* resolution
C32_Witness ==
    /\ ret.op = "send" /\ ~IsNone(ret.response)
    /\ ret.request.conversation_id = "c2"
    /\ Val(ret.response).action = "dispute_resolved"
    /\ \E i \in DOMAIN bus.message_history :
          /\ bus.message_history[i].conversation_id = "c1"
          /\ bus.message_history[i].message_type = "DISPUTE"
          /\ bus.message_history[i].sender = "QualityAgent"

=============================================================================
